---- MODULE Spec2Model ----
(***************************************************************************)
(* Calendar voice bot: the natural-language command interpreter            *)
(* (parseCommand with its remote delegate, the local fallback              *)
(* parseCommandLocally, resolveDate and convertTo24Hour).                  *)
(*                                                                         *)
(* Command texts are strings; the regular expressions of the source are    *)
(* evaluated character by character, with JavaScript's leftmost match,     *)
(* greedy/lazy quantifier priority and backtracking.  Matching is done on  *)
(* the lowercased text (every pattern carries the /i flag and the texts    *)
(* are ASCII), captures are cut out of the original text.                  *)
(***************************************************************************)
EXTENDS Integers, Sequences, FiniteSets, TLC

(***************************************************************************)
(* Characters and strings                                                  *)
(***************************************************************************)
UpperAlpha == "ABCDEFGHIJKLMNOPQRSTUVWXYZ"
LowerAlpha == "abcdefghijklmnopqrstuvwxyz"
Digits == "0123456789"

\* s.charAt(i - 1), the empty string outside the text
Ch(s, i) == IF i >= 1 /\ i <= Len(s) THEN SubSeq(s, i, i) ELSE ""

\* index of character c in the alphabet a, 0 when it is not there
IndexIn(a, c) ==
  IF \E k \in 1..Len(a) : SubSeq(a, k, k) = c
  THEN CHOOSE k \in 1..Len(a) : SubSeq(a, k, k) = c
  ELSE 0

CharsOf(a) == {SubSeq(a, k, k) : k \in 1..Len(a)}
UpperSet == CharsOf(UpperAlpha)
DigitSet == CharsOf(Digits)
WordSet == CharsOf(UpperAlpha) \cup CharsOf(LowerAlpha) \cup CharsOf(Digits) \cup {"_"}
LowerOf == [c \in CharsOf(UpperAlpha) |-> SubSeq(LowerAlpha, IndexIn(UpperAlpha, c), IndexIn(UpperAlpha, c))]
DigitValue == [c \in CharsOf(Digits) |-> IndexIn(Digits, c) - 1]

LowerCh(c) == IF c \in UpperSet THEN LowerOf[c] ELSE c

RECURSIVE LowerFrom(_, _)
LowerFrom(s, i) == IF i > Len(s) THEN "" ELSE LowerCh(SubSeq(s, i, i)) \o LowerFrom(s, i + 1)

\* String.prototype.toLowerCase
toLowerCase(s) == LowerFrom(s, 1)

\* does w occur in s at position i
StartsAt(s, i, w) == i >= 1 /\ i + Len(w) - 1 <= Len(s) /\ SubSeq(s, i, i + Len(w) - 1) = w

\* String.prototype.includes
includes(s, w) == \E i \in 1..(Len(s) - Len(w) + 1) : StartsAt(s, i, w)

IsSpace(c) == c = " "
IsDigit(c) == c \in DigitSet
IsWordCh(c) == c \in WordSet

\* \b at the gap before position i
WordBoundary(s, i) == IsWordCh(Ch(s, i - 1)) # IsWordCh(Ch(s, i))

\* length of the run of whitespace / digits starting at i
RECURSIVE SpaceRun(_, _)
SpaceRun(s, i) == IF IsSpace(Ch(s, i)) THEN 1 + SpaceRun(s, i + 1) ELSE 0

LeadingSpaces(s) == SpaceRun(s, 1)

RECURSIVE TrailingSpaces(_, _)
TrailingSpaces(s, i) == IF i >= 1 /\ IsSpace(Ch(s, i)) THEN 1 + TrailingSpaces(s, i - 1) ELSE 0

\* String.prototype.trim
trim(s) ==
  LET a == LeadingSpaces(s)
      b == TrailingSpaces(s, Len(s))
  IN  IF a >= Len(s) THEN "" ELSE SubSeq(s, a + 1, Len(s) - b)

\* String.prototype.padStart(2, '0')
padStart2(s) == IF Len(s) = 0 THEN "00" ELSE IF Len(s) = 1 THEN "0" \o s ELSE s

\* UTF-16 code units of the characters that occur in resolved time strings
CharCode(c) ==
  IF IsDigit(c) THEN 48 + DigitValue[c]
  ELSE IF c = ":" THEN 58
  ELSE IF c = " " THEN 32
  ELSE 96 + IndexIn(LowerAlpha, c)

\* the JavaScript relational comparison a < b of two strings
RECURSIVE StrLess(_, _)
StrLess(a, b) ==
  IF Len(b) = 0 THEN FALSE
  ELSE IF Len(a) = 0 THEN TRUE
  ELSE IF Ch(a, 1) = Ch(b, 1) THEN StrLess(SubSeq(a, 2, Len(a)), SubSeq(b, 2, Len(b)))
  ELSE CharCode(Ch(a, 1)) < CharCode(Ch(b, 1))

\* a >= b on strings
StrGeq(a, b) == ~StrLess(a, b)

\* parseInt(s, 10) of a string that starts with a digit: the leading digits
RECURSIVE parseIntFrom(_, _, _)
parseIntFrom(s, i, acc) ==
  IF IsDigit(Ch(s, i)) THEN parseIntFrom(s, i + 1, acc * 10 + DigitValue[Ch(s, i)])
  ELSE acc

parseInt(s) == parseIntFrom(s, 1, 0)

\* first index of character c in s at or after i, 0 if none
RECURSIVE IndexOfFrom(_, _, _)
IndexOfFrom(s, c, i) ==
  IF i > Len(s) THEN 0 ELSE IF Ch(s, i) = c THEN i ELSE IndexOfFrom(s, c, i + 1)

(***************************************************************************)
(* Calendar dates (the process runs with local time = UTC)                 *)
(***************************************************************************)
IsLeap(y) == (y % 4 = 0 /\ y % 100 # 0) \/ y % 400 = 0

DaysInMonth(y, m) ==
  IF m = 2 THEN (IF IsLeap(y) THEN 29 ELSE 28)
  ELSE IF m \in {4, 6, 9, 11} THEN 30 ELSE 31

\* Date.prototype.getDay: 0 = Sunday .. 6 = Saturday
getDay(date) ==
  LET t == <<0, 3, 2, 5, 0, 3, 5, 1, 4, 6, 2, 4>>
      y == IF date.m < 3 THEN date.y - 1 ELSE date.y
  IN  (y + (y \div 4) - (y \div 100) + (y \div 400) + t[date.m] + date.d) % 7

\* NextDay without the change of year
NextDaySameYear(date) ==
  IF date.d < DaysInMonth(date.y, date.m) THEN [date EXCEPT !.d = date.d + 1]
  ELSE [y |-> date.y, m |-> date.m + 1, d |-> 1]

NextDay(date) ==
  IF date.d < DaysInMonth(date.y, date.m) THEN [date EXCEPT !.d = date.d + 1]
  ELSE IF date.m < 12 THEN [y |-> date.y, m |-> date.m + 1, d |-> 1]
  ELSE [y |-> date.y + 1, m |-> 1, d |-> 1]

\* date.setDate(date.getDate() + n) for n >= 0
RECURSIVE AddDays(_, _)
AddDays(date, n) == IF n = 0 THEN date ELSE AddDays(NextDay(date), n - 1)

\* date.toISOString().split('T')[0]
ISODate(date) ==
  ToString(date.y) \o "-" \o padStart2(ToString(date.m)) \o "-" \o padStart2(ToString(date.d))

\* Date.prototype.setDate(n) for n >= 1: day n counted from the first of the
\* month, running over into the following months
setDate(date, n) == AddDays([date EXCEPT !.d = 1], n - 1)

\* JavaScript's a || b on numbers
OrElse(a, b) == IF a # 0 THEN a ELSE b

\* the element of s.split('/') that starts at from and ends before slash
Field(s, from, slash) ==
  IF slash = 0 THEN SubSeq(s, from, Len(s)) ELSE SubSeq(s, from, slash - 1)

\* the slash after the one at prev, 0 if there is none
NextSlash(s, prev) == IF prev = 0 THEN 0 ELSE IndexOfFrom(s, "/", prev + 1)

\* if (year) return `${year}-${month.padStart(2, '0')}-${day.padStart(2, '0')}`
\* year is undefined (here "") when there is no second slash
FromParts(month, day, year, now) ==
  IF year # "" THEN year \o "-" \o padStart2(month) \o "-" \o padStart2(day)
  ELSE ISODate(now)

\* const [month, day, year] = dateStr.split('/'), the slashes at s1 and s2
SlashDate(dateStr, s1, s2, now) ==
  FromParts(Field(dateStr, 1, s1),
            IF s1 = 0 THEN "" ELSE Field(dateStr, s1 + 1, s2),
            IF s2 = 0 THEN "" ELSE Field(dateStr, s2 + 1, NextSlash(dateStr, s2)),
            now)

SplitDate(dateStr, s1, now) == SlashDate(dateStr, s1, NextSlash(dateStr, s1), now)

\* switch (dateStr.toLowerCase()); in 'next monday' the || 1 applies to the
\* whole sum now.getDate() + (1 - now.getDay() + 7) % 7, since + binds
\* tighter than ||
ResolveLowered(dateStr, low, now) ==
  IF low = "today" THEN ISODate(now)
  ELSE IF low = "tomorrow" THEN ISODate(AddDays(now, 1))
  ELSE IF low = "next monday"
    THEN ISODate(setDate(now, OrElse(now.d + ((1 - getDay(now) + 7) % 7), 1)))
  ELSE SplitDate(dateStr, IndexOfFrom(dateStr, "/", 1), now)

resolveDate(dateStr, now) == ResolveLowered(dateStr, toLowerCase(dateStr), now)

(***************************************************************************)
(* Times                                                                   *)
(***************************************************************************)
\* the first two elements of s.split(/\s+/); "" stands for undefined
FirstWord(s) ==
  IF IndexOfFrom(s, " ", 1) = 0 THEN s ELSE SubSeq(s, 1, IndexOfFrom(s, " ", 1) - 1)

RestAfterWord(s) ==
  IF IndexOfFrom(s, " ", 1) = 0 THEN ""
  ELSE SubSeq(s, IndexOfFrom(s, " ", 1) + SpaceRun(s, IndexOfFrom(s, " ", 1)), Len(s))

SecondWord(s) == FirstWord(RestAfterWord(s))

\* the first two elements of time.split(':')
BeforeColon(time) == SubSeq(time, 1, IndexOfFrom(time, ":", 1) - 1)
AfterColon(time) == SubSeq(time, IndexOfFrom(time, ":", 1) + 1, Len(time))
ColonPart(rest) ==
  IF IndexOfFrom(rest, ":", 1) = 0 THEN rest ELSE SubSeq(rest, 1, IndexOfFrom(rest, ":", 1) - 1)

\* AddPmHours without the exception for 12
AddPmHoursAlways(hours, modifier) == IF modifier = "pm" THEN hours + 12 ELSE hours

\* if (modifier === 'pm' && hours !== 12) hours += 12
AddPmHours(hours, modifier) == IF modifier = "pm" /\ hours # 12 THEN hours + 12 ELSE hours

\* if (modifier === 'am' && hours === 12) hours = 0
ZeroAmHours(hours, modifier) == IF modifier = "am" /\ hours = 12 THEN 0 ELSE hours

FormatTime(hours, minutes) ==
  padStart2(ToString(hours)) \o ":" \o padStart2(minutes) \o ":00"

ConvertParts(time, modifier) ==
  FormatTime(ZeroAmHours(AddPmHours(parseInt(BeforeColon(time)), modifier), modifier),
             ColonPart(AfterColon(time)))

SplitAndConvert(low) == ConvertParts(FirstWord(low), SecondWord(low))

convertTo24Hour(timeStr) == SplitAndConvert(toLowerCase(timeStr))

(***************************************************************************)
(* Regular expressions.  A match is a tuple of captured strings, NoMatch   *)
(* is JavaScript's null.  Positions are 1-based; an end position is the    *)
(* index after the last matched character, 0 means "no match here".        *)
(***************************************************************************)
NoMatch == <<>>

Min(S) == CHOOSE a \in S : \A b \in S : a <= b
Max(S) == CHOOSE a \in S : \A b \in S : a >= b

\* the first alternative that matches
OrMatch(a, b) == IF a # NoMatch THEN a ELSE b

\* the match at the first position (or alternative) of f that has one
FirstMatch(f) ==
  IF \A i \in DOMAIN f : f[i] = NoMatch THEN NoMatch
  ELSE f[Min({i \in DOMAIN f : f[i] # NoMatch})]

\* the start positions String.prototype.match tries, in order
Starts(text) == 1..(Len(text) + 1)

\* the captured text[from .. to), for bounds that matched
Capture(text, from, to) ==
  IF from = 0 \/ to = 0 THEN NoMatch ELSE <<SubSeq(text, from, to - 1)>>

\* the capture with bounds c = <<from, to>>
CaptureOf(text, c) == IF c = <<>> THEN NoMatch ELSE <<SubSeq(text, c[1], c[2] - 1)>>

\* the verb text[i .. e) and the capture with bounds c
VerbAndCapture(text, i, e, c) ==
  IF c = <<>> THEN NoMatch ELSE <<SubSeq(text, i, e - 1), SubSeq(text, c[1], c[2] - 1)>>

IsDigits(s, i, n) == \A k \in 0..(n - 1) : IsDigit(Ch(s, i + k))

\* \s+ followed by something that cannot begin with whitespace: the whole run
AfterSpaces(s, i) == IF SpaceRun(s, i) = 0 THEN 0 ELSE i + SpaceRun(s, i)

\* \s+ after a part of the pattern that ended at e
SpacesAfter(s, e) == IF e = 0 THEN 0 ELSE AfterSpaces(s, e)

\* w1\s+w2\s+...wn at position i
RECURSIVE PhraseEnd(_, _, _)
PhraseEnd(low, i, words) ==
  IF i = 0 \/ ~StartsAt(low, i, Head(words)) THEN 0
  ELSE IF Len(words) = 1 THEN i + Len(Head(words))
  ELSE PhraseEnd(low, AfterSpaces(low, i + Len(Head(words))), Tail(words))

\* \d{1,2}\/\d{1,2}(?:\/\d{2,4})? at i followed by \b: the end of the first
\* alternative in backtracking order (greedy counts first), 0 if none.
\* A candidate is <<d1, d2, y>>, y = 0 for the omitted optional group.
SlashEndOf(i, c) == i + c[1] + 1 + c[2] + (IF c[3] = 0 THEN 0 ELSE 1 + c[3])

SlashOk(low, i, c) ==
  /\ IsDigits(low, i, c[1])
  /\ Ch(low, i + c[1]) = "/"
  /\ IsDigits(low, i + c[1] + 1, c[2])
  /\ c[3] # 0 => /\ Ch(low, i + c[1] + 1 + c[2]) = "/"
                 /\ IsDigits(low, i + c[1] + c[2] + 2, c[3])
  /\ WordBoundary(low, SlashEndOf(i, c))

SlashBefore(a, b) ==
  \/ a[1] > b[1]
  \/ a[1] = b[1] /\ a[2] > b[2]
  \/ a[1] = b[1] /\ a[2] = b[2] /\ a[3] >= b[3]

SlashFirst(i, Cands) ==
  IF Cands = {} THEN 0
  ELSE SlashEndOf(i, CHOOSE a \in Cands : \A b \in Cands : SlashBefore(a, b))

SlashDateEnd(low, i) ==
  SlashFirst(i, {c \in {2, 1} \X {2, 1} \X {4, 3, 2, 0} : SlashOk(low, i, c)})

\* an alternative that ended at e (0: did not match) is taken when \b follows
AtBoundary(low, e) == e # 0 /\ WordBoundary(low, e)

\* (today|tomorrow|next\s+monday|\d{1,2}\/\d{1,2}(?:\/\d{2,4})?)\b at i
DateTokenEnd(low, i) ==
  IF StartsAt(low, i, "today") /\ WordBoundary(low, i + 5) THEN i + 5
  ELSE IF StartsAt(low, i, "tomorrow") /\ WordBoundary(low, i + 8) THEN i + 8
  ELSE IF AtBoundary(low, PhraseEnd(low, i, <<"next", "monday">>))
    THEN PhraseEnd(low, i, <<"next", "monday">>)
  ELSE SlashDateEnd(low, i)

\* \d{1,2}:\d{2} at i
TimeCoreEnd(low, i) ==
  IF IsDigits(low, i, 2) /\ Ch(low, i + 2) = ":" /\ IsDigits(low, i + 3, 2) THEN i + 5
  ELSE IF IsDigits(low, i, 1) /\ Ch(low, i + 1) = ":" /\ IsDigits(low, i + 2, 2) THEN i + 4
  ELSE 0

MeridiemAt(low, i) == StartsAt(low, i, "am") \/ StartsAt(low, i, "pm")

\* (?:\s?(?:am|pm))? after \d{1,2}:\d{2} that ended at e, the greedy end
MeridiemEnd(low, e) ==
  IF e = 0 THEN 0
  ELSE IF IsSpace(Ch(low, e)) /\ MeridiemAt(low, e + 1) THEN e + 3
  ELSE IF MeridiemAt(low, e) THEN e + 2
  ELSE e

\* \d{1,2}:\d{2}(?:\s?(?:am|pm))? at i, the greedy (first tried) end
TimeEnd(low, i) == MeridiemEnd(low, TimeCoreEnd(low, i))

\* the date token at j, j = 0 when the pattern before it did not match
DateTokenFrom(text, low, j) == IF j = 0 THEN NoMatch ELSE Capture(text, j, DateTokenEnd(low, j))

\* the time at j, j = 0 when the pattern before it did not match
TimeFrom(text, low, j) == IF j = 0 THEN NoMatch ELSE Capture(text, j, TimeEnd(low, j))

\* /\b(on|for)?\s*(today|tomorrow|next\s+monday|\d{1,2}\/\d{1,2}(?:\/\d{2,4})?)\b/i
\* the match is <<on/for or "" when that group did not take part, date token>>
PrefixLen(low, i) ==
  IF StartsAt(low, i, "on") THEN 2 ELSE IF StartsAt(low, i, "for") THEN 3 ELSE 0

WithPrefix(pre, tok) == IF tok = NoMatch THEN NoMatch ELSE <<pre, tok[1]>>

\* with the optional prefix of length n; \s* takes the whole run
PrefixedToken(text, low, i, n) ==
  WithPrefix(SubSeq(text, i, i + n - 1), DateTokenFrom(text, low, i + n + SpaceRun(low, i + n)))

PrefixedDateAt(text, low, i) ==
  IF ~WordBoundary(low, i) THEN NoMatch
  ELSE IF PrefixLen(low, i) = 0 THEN PrefixedToken(text, low, i, 0)
  ELSE OrMatch(PrefixedToken(text, low, i, PrefixLen(low, i)), PrefixedToken(text, low, i, 0))

MatchPrefixedDateIn(text, low) ==
  FirstMatch([i \in Starts(text) |-> PrefixedDateAt(text, low, i)])

MatchPrefixedDate(text) == MatchPrefixedDateIn(text, toLowerCase(text))

\* /\b(today|tomorrow|next\s+monday|\d{1,2}\/\d{1,2}(?:\/\d{2,4})?)\b/i
DateAt(text, low, i) ==
  IF WordBoundary(low, i) THEN DateTokenFrom(text, low, i) ELSE NoMatch

MatchDateIn(text, low) == FirstMatch([i \in Starts(text) |-> DateAt(text, low, i)])

MatchDate(text) == MatchDateIn(text, toLowerCase(text))

\* /\bfor\s+(today|tomorrow|next\s+monday|\d{1,2}\/\d{1,2}(?:\/\d{2,4})?)\b/i
ForDateAt(text, low, i) ==
  IF WordBoundary(low, i) /\ StartsAt(low, i, "for")
  THEN DateTokenFrom(text, low, AfterSpaces(low, i + 3)) ELSE NoMatch

MatchForDateIn(text, low) == FirstMatch([i \in Starts(text) |-> ForDateAt(text, low, i)])

MatchForDate(text) == MatchForDateIn(text, toLowerCase(text))

\* /<phrase>\s+(\d{1,2}:\d{2}(?:\s?(?:am|pm))?)/i for the alternatives
\* phrases (tried in order): the match is <<time>>
PhraseTimeAt(text, low, i, phrases) ==
  FirstMatch([k \in 1..Len(phrases) |->
                TimeFrom(text, low, SpacesAfter(low, PhraseEnd(low, i, phrases[k])))])

MatchPhraseTimeIn(text, low, phrases) ==
  FirstMatch([i \in Starts(text) |-> PhraseTimeAt(text, low, i, phrases)])

MatchPhraseTime(text, phrases) == MatchPhraseTimeIn(text, toLowerCase(text), phrases)

\* /between\s+(T)\s+(?:and|to)\s+(T)/i with T = \d{1,2}:\d{2}(?:\s?(?:am|pm))?
\* the match is <<first time, second time>>
\* (?:and|to)\s+ at a
ConnectiveEnd(low, a) ==
  IF a = 0 THEN 0
  ELSE IF StartsAt(low, a, "and") THEN AfterSpaces(low, a + 3)
  ELSE IF StartsAt(low, a, "to") THEN AfterSpaces(low, a + 2)
  ELSE 0

\* \s+(?:and|to)\s+(T) after a first time that ended at e
RangeRest(text, low, e) ==
  TimeFrom(text, low, ConnectiveEnd(low, SpacesAfter(low, e)))

BothTimes(first, second) ==
  IF first = NoMatch \/ second = NoMatch THEN NoMatch ELSE <<first[1], second[1]>>

\* the first time is text[j .. e)
RangeWithFirst(text, low, j, e) == BothTimes(Capture(text, j, e), RangeRest(text, low, e))

\* the first time with its meridiem is tried before the one without
RangeFrom(text, low, j) ==
  IF j = 0 THEN NoMatch
  ELSE OrMatch(RangeWithFirst(text, low, j, TimeEnd(low, j)),
               RangeWithFirst(text, low, j, TimeCoreEnd(low, j)))

RangeAt(text, low, i) ==
  IF StartsAt(low, i, "between") THEN RangeFrom(text, low, AfterSpaces(low, i + 7)) ELSE NoMatch

MatchTimeRangeIn(text, low) == FirstMatch([i \in Starts(text) |-> RangeAt(text, low, i)])

MatchTimeRange(text) == MatchTimeRangeIn(text, toLowerCase(text))

\* is z (0: no whitespace came before) the start of one of the words
WordAt(low, z, words) == z # 0 /\ \E k \in 1..Len(words) : StartsAt(low, z, words[k])

\* (?:\s+for|\s+at) at p
TitleStop(low, p) == WordAt(low, AfterSpaces(low, p), <<"for", "at">>)

\* (?:\s+at|\s+to|$) at p
DescStop(low, p) == WordAt(low, AfterSpaces(low, p), <<"at", "to">>) \/ p = Len(low) + 1

\* (?:\s+(?:to|at|on|between|$)) at p
NameStop(low, p) ==
  \/ WordAt(low, AfterSpaces(low, p), <<"to", "at", "on", "between">>)
  \/ AfterSpaces(low, p) = Len(low) + 1

\* the pattern that follows (.+?) in titleMatch, descMatch and nameMatch
StopAt(kind, low, p) ==
  IF kind = "title" THEN TitleStop(low, p)
  ELSE IF kind = "desc" THEN DescStop(low, p)
  ELSE NameStop(low, p)

\* the smallest member of P, 0 if there is none
FirstOrZero(P) == IF P = {} THEN 0 ELSE Min(P)

\* (.+?) from q followed by the stop pattern: the end of the shortest
\* non-empty capture, 0 if none
LazyEnd(low, q, kind) ==
  IF q > Len(low) THEN 0
  ELSE FirstOrZero({p \in (q + 1)..(Len(low) + 1) : StopAt(kind, low, p)})

\* the capture <<q, its lazy end>> after the longest whitespace prefix in N
LazyBounds(low, j, kind, N) ==
  IF N = {} THEN <<>> ELSE <<j + Max(N), LazyEnd(low, j + Max(N), kind)>>

\* \s+(.+?) from j followed by the stop pattern: the bounds <<q, p>> of the
\* capture, the longest whitespace prefix tried first
SpacesThenLazy(low, j, kind) ==
  LazyBounds(low, j, kind, {n \in 1..SpaceRun(low, j) : LazyEnd(low, j + n, kind) # 0})

\* the end of the first of the alternative words that occurs at i, 0 if none
AnyWordEnd(low, i, words) ==
  IF \A k \in 1..Len(words) : ~StartsAt(low, i, words[k]) THEN 0
  ELSE i + Len(words[Min({k \in 1..Len(words) : StartsAt(low, i, words[k])})])

\* /(schedule|create|set up)\s+(.+?)(?:\s+for|\s+at)/i : <<verb, title>>
\* the verb is text[i .. e)
TitleFrom(text, low, i, e) ==
  IF e = 0 THEN NoMatch ELSE VerbAndCapture(text, i, e, SpacesThenLazy(low, e, "title"))

TitleAt(text, low, i) ==
  TitleFrom(text, low, i, AnyWordEnd(low, i, <<"schedule", "create", "set up">>))

MatchTitleIn(text, low) == FirstMatch([i \in Starts(text) |-> TitleAt(text, low, i)])

MatchTitle(text) == MatchTitleIn(text, toLowerCase(text))

\* /<phrase>\s+(.+?)(?:\s+at|\s+to|$)/i : <<captured text>>
\* (phrase "for" in CREATE_EVENT, "with description" in MODIFY_EVENT)
DescriptionFrom(text, low, e) ==
  IF e = 0 THEN NoMatch ELSE CaptureOf(text, SpacesThenLazy(low, e, "desc"))

MatchDescriptionIn(text, low, phrase) ==
  FirstMatch([i \in Starts(text) |-> DescriptionFrom(text, low, PhraseEnd(low, i, phrase))])

MatchDescription(text, phrase) == MatchDescriptionIn(text, toLowerCase(text), phrase)

\* /(modify|change|update|modified)\s+(?:the\s+)?(.+?)(?:\s+(?:to|at|on|between|$))/i
\* the match is <<verb, name>>
\* the capture after the optional "the\s+" at q (q: after the longest \s+)
AfterThe(low, q) ==
  IF q # 0 /\ StartsAt(low, q, "the") THEN SpacesThenLazy(low, q + 3, "name") ELSE <<>>

\* the verb is text[i .. e); with "the\s+" first, then without it
NameFrom(text, low, i, e) ==
  IF e = 0 THEN NoMatch
  ELSE VerbAndCapture(text, i, e,
         OrMatch(AfterThe(low, AfterSpaces(low, e)), SpacesThenLazy(low, e, "name")))

NameAt(text, low, i) ==
  NameFrom(text, low, i, AnyWordEnd(low, i, <<"modify", "change", "update", "modified">>))

MatchNameIn(text, low) == FirstMatch([i \in Starts(text) |-> NameAt(text, low, i)])

MatchName(text) == MatchNameIn(text, toLowerCase(text))

\* BeforeWith without the split
BeforeWithKept(s) == s

\* s.split(' with ')[0]
BeforeWith(s) ==
  IF \A i \in 1..Len(s) : ~StartsAt(s, i, " with ") THEN s
  ELSE SubSeq(s, 1, Min({i \in 1..Len(s) : StartsAt(s, i, " with ")}) - 1)

(***************************************************************************)
(* JavaScript objects are records whose domain is the set of own           *)
(* properties present; null is the value Null.                             *)
(***************************************************************************)
Null == "<null>"

Has(o, f) == f \in DOMAIN o
Put(o, f, v) == [k \in DOMAIN o \cup {f} |-> IF k = f THEN v ELSE o[k]]
Delete(o, f) == [k \in DOMAIN o \ {f} |-> o[k]]

\* the result of a call: a returned value or a thrown error
Returned(v) == [kind |-> "return", value |-> v]
Thrown(e) == [kind |-> "throw", error |-> e]

Intents == {"CREATE_EVENT", "QUERY_EVENTS", "MODIFY_EVENT", "DELETE_EVENTS"}
DetailsFields == {"eventDetails", "queryDetails", "modifyDetails", "deleteDetails"}

InvalidRangeMessage(a, b, example) ==
  "The time range from " \o a \o " to " \o b
    \o " is invalid. Please provide a valid time range (e.g., '" \o example \o "')."

Clarification(msg) == [message |-> msg, options |-> <<>>]

\* startTime >= endTime, the range check of the three branches
RangeInvalid(startTime, endTime) == StrGeq(startTime, endTime)

\* Reject without its delete statement
RejectKeepingDetails(result, field, msg) ==
  Put(result, "clarificationNeeded", Clarification(msg))

\* result.clarificationNeeded = {message, options: []}; delete result[field]
Reject(result, field, msg) ==
  Delete(Put(result, "clarificationNeeded", Clarification(msg)), field)

\* JavaScript truthiness of a string-or-null value
Truthy(v) == v # Null /\ v # ""

IsDelete(lowerCommand) == includes(lowerCommand, "cancel") \/ includes(lowerCommand, "delete")

IsCreate(lowerCommand) ==
  includes(lowerCommand, "schedule") \/ includes(lowerCommand, "create")
    \/ includes(lowerCommand, "set up")

IsQuery(lowerCommand) ==
  /\ includes(lowerCommand, "what")
  /\ includes(lowerCommand, "have") \/ includes(lowerCommand, "on")
  /\ includes(lowerCommand, "calendar")

IsModify(lowerCommand) ==
  includes(lowerCommand, "modify") \/ includes(lowerCommand, "change")
    \/ includes(lowerCommand, "update") \/ includes(lowerCommand, "modified")

\* DELETE_EVENTS: the range check on the converted times
DeleteWindow(result, timeRangeMatch, startTime, endTime) ==
  IF RangeInvalid(startTime, endTime)
  THEN Reject(result, "deleteDetails",
              InvalidRangeMessage(timeRangeMatch[1], timeRangeMatch[2],
                                  "between 4:00 pm and 6:00 pm"))
  ELSE Put(result, "deleteDetails",
           Put(Put(result.deleteDetails, "startTime", startTime), "endTime", endTime))

\* DELETE_EVENTS: if (timeRangeMatch) {...}
DeleteOn(result, timeRangeMatch) ==
  IF timeRangeMatch # NoMatch
  THEN DeleteWindow(result, timeRangeMatch,
                    convertTo24Hour(timeRangeMatch[1]), convertTo24Hour(timeRangeMatch[2]))
  ELSE result

\* DeleteWith without the clarification of a missing date
DeleteWithSilent(result, dateMatch, timeRangeMatch, now) ==
  IF dateMatch # NoMatch
  THEN Returned(DeleteOn(Put(result, "deleteDetails",
                             [targetDate |-> resolveDate(dateMatch[2], now)]),
                         timeRangeMatch))
  ELSE Returned(result)

\* DELETE_EVENTS: if (dateMatch) {...} else {...}
DeleteWith(result, dateMatch, timeRangeMatch, now) ==
  IF dateMatch # NoMatch
  THEN Returned(DeleteOn(Put(result, "deleteDetails",
                             [targetDate |-> resolveDate(dateMatch[2], now)]),
                         timeRangeMatch))
  ELSE Returned(Put(result, "clarificationNeeded",
         Clarification("Please specify a date for canceling meetings (e.g., 'today', 'tomorrow', or '10/27/2025').")))

\* the DELETE_EVENTS branch of parseCommandLocally
ParseDelete(commandText, now, result0) ==
  DeleteWith(Put(result0, "intent", "DELETE_EVENTS"),
             MatchPrefixedDate(commandText), MatchTimeRange(commandText), now)

\* CREATE_EVENT: result.eventDetails = {...}
CreateDetails(titleMatch, dateMatch, timeMatch, endTimeMatch, descMatch, now) ==
  [title |-> trim(titleMatch[2]),
   date |-> resolveDate(dateMatch[1], now),
   startTime |-> IF timeMatch # NoMatch THEN convertTo24Hour(timeMatch[1]) ELSE "09:00:00",
   endTime |-> IF endTimeMatch # NoMatch THEN convertTo24Hour(endTimeMatch[1]) ELSE Null,
   description |-> IF descMatch # NoMatch THEN trim(descMatch[1]) ELSE Null]

\* CREATE_EVENT: the range check; its message reads timeMatch[1], a TypeError
\* when timeMatch is null
CreateValidated(result, eventDetails, timeMatch, endTimeMatch) ==
  IF /\ Truthy(eventDetails.startTime) /\ Truthy(eventDetails.endTime)
     /\ RangeInvalid(eventDetails.startTime, eventDetails.endTime)
  THEN IF timeMatch = NoMatch
       THEN Thrown("TypeError")
       ELSE Returned(Reject(Put(result, "eventDetails", eventDetails), "eventDetails",
              InvalidRangeMessage(timeMatch[1], endTimeMatch[1], "from 4:00 pm to 6:00 pm")))
  ELSE Returned(Put(result, "eventDetails", eventDetails))

\* CreateWith asking for the missing title or date
CreateWithAsking(result, titleMatch, dateMatch, timeMatch, endTimeMatch, descMatch, now) ==
  IF titleMatch # NoMatch /\ dateMatch # NoMatch
  THEN CreateValidated(result,
         CreateDetails(titleMatch, dateMatch, timeMatch, endTimeMatch, descMatch, now),
         timeMatch, endTimeMatch)
  ELSE Returned(Put(result, "clarificationNeeded",
                    Clarification("Please give a title and a date.")))

\* CREATE_EVENT: if (titleMatch && dateMatch) {...}
CreateWith(result, titleMatch, dateMatch, timeMatch, endTimeMatch, descMatch, now) ==
  IF titleMatch # NoMatch /\ dateMatch # NoMatch
  THEN CreateValidated(result,
         CreateDetails(titleMatch, dateMatch, timeMatch, endTimeMatch, descMatch, now),
         timeMatch, endTimeMatch)
  ELSE Returned(result)

\* the CREATE_EVENT branch of parseCommandLocally
ParseCreate(commandText, now, result0) ==
  CreateWith(Put(result0, "intent", "CREATE_EVENT"),
             MatchTitle(commandText), MatchDate(commandText),
             MatchPhraseTime(commandText, <<(<<"at">>)>>),
             MatchPhraseTime(commandText, <<(<<"to">>)>>),
             MatchDescription(commandText, <<"for">>), now)

\* QUERY_EVENTS: if (dateMatch) result.queryDetails = {...}
QueryWith(result, dateMatch, now) ==
  IF dateMatch # NoMatch
  THEN Returned(Put(result, "queryDetails", [targetDate |-> resolveDate(dateMatch[1], now)]))
  ELSE Returned(result)

\* the QUERY_EVENTS branch of parseCommandLocally
ParseQuery(commandText, now, result0) ==
  QueryWith(Put(result0, "intent", "QUERY_EVENTS"), MatchForDate(commandText), now)

\* MODIFY_EVENT: if (dateMatch) result.modifyDetails.date = ...
WithDate(details, dateMatch, now) ==
  IF dateMatch # NoMatch THEN Put(details, "date", resolveDate(dateMatch[2], now)) ELSE details

\* MODIFY_EVENT: if (startTimeMatch) result.modifyDetails.startTime = ...
WithStart(details, startTimeMatch) ==
  IF startTimeMatch # NoMatch
  THEN Put(details, "startTime", convertTo24Hour(startTimeMatch[1])) ELSE details

\* MODIFY_EVENT: if (endTimeMatch) result.modifyDetails.endTime = ...
WithEnd(details, endTimeMatch) ==
  IF endTimeMatch # NoMatch
  THEN Put(details, "endTime", convertTo24Hour(endTimeMatch[1])) ELSE details

\* MODIFY_EVENT: if (timeRangeMatch) {...} else {...}
WithTimes(details, timeRangeMatch, startTimeMatch, endTimeMatch) ==
  IF timeRangeMatch # NoMatch
  THEN Put(Put(details, "startTime", convertTo24Hour(timeRangeMatch[1])),
           "endTime", convertTo24Hour(timeRangeMatch[2]))
  ELSE WithEnd(WithStart(details, startTimeMatch), endTimeMatch)

\* MODIFY_EVENT: if (descMatch) result.modifyDetails.description = ...
WithDescription(details, descMatch) ==
  IF descMatch # NoMatch THEN Put(details, "description", trim(descMatch[1])) ELSE details

\* MODIFY_EVENT: result.modifyDetails as the range check finds it
ModifyDetails(nameMatch, dateMatch, timeRangeMatch, startTimeMatch, endTimeMatch, descMatch, now) ==
  WithDescription(
    WithTimes(WithDate([eventName |-> trim(BeforeWith(trim(nameMatch[2])))], dateMatch, now),
              timeRangeMatch, startTimeMatch, endTimeMatch),
    descMatch)

\* MODIFY_EVENT: the range check; from and to are the texts its message reads
ModifyValidated(result, modifyDetails, from, to) ==
  IF /\ Has(modifyDetails, "startTime") /\ Truthy(modifyDetails.startTime)
     /\ Has(modifyDetails, "endTime") /\ Truthy(modifyDetails.endTime)
     /\ RangeInvalid(modifyDetails.startTime, modifyDetails.endTime)
  THEN Returned(Reject(Put(result, "modifyDetails", modifyDetails), "modifyDetails",
         InvalidRangeMessage(from, to, "from 4:00 pm to 6:00 pm")))
  ELSE Returned(Put(result, "modifyDetails", modifyDetails))

\* timeRangeMatch ? timeRangeMatch[k] : other[1]
RangeText(timeRangeMatch, k, other) ==
  IF timeRangeMatch # NoMatch THEN timeRangeMatch[k] ELSE other[1]

\* MODIFY_EVENT: if (nameMatch) {...}
ModifyWith(result, nameMatch, dateMatch, timeRangeMatch, startTimeMatch, endTimeMatch, descMatch, now) ==
  IF nameMatch = NoMatch THEN Returned(result)
  ELSE ModifyValidated(result,
         ModifyDetails(nameMatch, dateMatch, timeRangeMatch, startTimeMatch,
                       endTimeMatch, descMatch, now),
         RangeText(timeRangeMatch, 1, startTimeMatch),
         RangeText(timeRangeMatch, 2, endTimeMatch))

\* the MODIFY_EVENT branch of parseCommandLocally
ParseModify(commandText, now, result0) ==
  IF IsDelete(toLowerCase(commandText)) THEN Returned(result0)
  ELSE ModifyWith(Put(result0, "intent", "MODIFY_EVENT"),
                  MatchName(commandText), MatchPrefixedDate(commandText),
                  MatchTimeRange(commandText),
                  MatchPhraseTime(commandText, <<(<<"to", "start", "at">>), (<<"at">>)>>),
                  MatchPhraseTime(commandText, <<(<<"to", "end", "at">>)>>),
                  MatchDescription(commandText, <<"with", "description">>), now)

\* the if / else-if chain of parseCommandLocally on the lowered command
Branch(commandText, lowerCommand, result, now) ==
  IF IsDelete(lowerCommand) THEN ParseDelete(commandText, now, result)
  ELSE IF IsCreate(lowerCommand) THEN ParseCreate(commandText, now, result)
  ELSE IF IsQuery(lowerCommand) THEN ParseQuery(commandText, now, result)
  ELSE IF IsModify(lowerCommand) THEN ParseModify(commandText, now, result)
  ELSE Returned(result)

\* Branch with the CREATE_EVENT test ahead of the DELETE_EVENTS test
BranchCreateFirst(commandText, lowerCommand, result, now) ==
  IF IsCreate(lowerCommand) THEN ParseCreate(commandText, now, result)
  ELSE IF IsDelete(lowerCommand) THEN ParseDelete(commandText, now, result)
  ELSE IF IsQuery(lowerCommand) THEN ParseQuery(commandText, now, result)
  ELSE IF IsModify(lowerCommand) THEN ParseModify(commandText, now, result)
  ELSE Returned(result)

\* Branch with the MODIFY_EVENT test ahead of the QUERY_EVENTS test
BranchModifyFirst(commandText, lowerCommand, result, now) ==
  IF IsDelete(lowerCommand) THEN ParseDelete(commandText, now, result)
  ELSE IF IsCreate(lowerCommand) THEN ParseCreate(commandText, now, result)
  ELSE IF IsModify(lowerCommand) THEN ParseModify(commandText, now, result)
  ELSE IF IsQuery(lowerCommand) THEN ParseQuery(commandText, now, result)
  ELSE Returned(result)

\* Branch asking for clarification when no keyword matches
BranchAsking(commandText, lowerCommand, result, now) ==
  IF IsDelete(lowerCommand) THEN ParseDelete(commandText, now, result)
  ELSE IF IsCreate(lowerCommand) THEN ParseCreate(commandText, now, result)
  ELSE IF IsQuery(lowerCommand) THEN ParseQuery(commandText, now, result)
  ELSE IF IsModify(lowerCommand) THEN ParseModify(commandText, now, result)
  ELSE Returned(Put(result, "clarificationNeeded", Clarification("Please rephrase.")))

\* parseCommandLocally with the CREATE_EVENT test ahead of the DELETE_EVENTS test
parseCommandLocallyCreateFirst(commandText, now) ==
  BranchCreateFirst(commandText, toLowerCase(commandText), [useLocalFallback |-> TRUE], now)

\* parseCommandLocally with the MODIFY_EVENT test ahead of the QUERY_EVENTS test
parseCommandLocallyModifyFirst(commandText, now) ==
  BranchModifyFirst(commandText, toLowerCase(commandText), [useLocalFallback |-> TRUE], now)

\* parseCommandLocally asking for clarification when no keyword matches
parseCommandLocallyAsking(commandText, now) ==
  BranchAsking(commandText, toLowerCase(commandText), [useLocalFallback |-> TRUE], now)

parseCommandLocally(commandText, now) ==
  Branch(commandText, toLowerCase(commandText), [useLocalFallback |-> TRUE], now)

(***************************************************************************)
(* Inputs                                                                  *)
(***************************************************************************)
\* the largest number of fragments a command text is made of
MaxFrags == 2

\* the pieces command texts are built from, joined by single spaces
Fragments ==
  { "cancel all my meetings today", "Delete it", "schedule lunch for today",
    "change the call", "What do I have on my calendar", "hello there",
    "for tomorrow", "at 3:00 PM", "to 8:00 am",
    "between 4:00pm and 5:00 am", "between 6:00 pm and 4:00 pm",
    "to start at 5:00 pm", "to end at 4:00 pm" }

RECURSIVE CommandsOf(_)
CommandsOf(n) ==
  IF n = 1 THEN Fragments
  ELSE CommandsOf(n - 1) \cup {c \o " " \o f : c \in CommandsOf(n - 1), f \in Fragments}

\* 12-hour times as they are spoken, hour-only or with minutes
SpokenTimes == {"4 pm", "5 pm", "6 pm", "4:00 pm", "6:00 pm", "3 PM", "3:00 PM"}

\* cancel commands with a time range and a date
DeleteBetween(x, y) == "cancel all my meetings between " \o x \o " and " \o y \o " today"

\* create commands with a start time, and one without
CreateAt(x) == "schedule a meeting tomorrow at " \o x
CreateUntimed == "schedule a meeting for tomorrow"

\* create commands with a "from X to Y" range
CreateFromTo(x, y) == "schedule team sync today from " \o x \o " to " \o y

EventNames == {"product call", "standup"}
Qualifiers == {"Sharan", "Ana Li"}

\* modify commands whose event name carries a " with <name>" clause
ModifyWithClause(name, who) == "modify the " \o name \o " with " \o who \o " to start at 4 PM"

\* modify commands that end with the event name
ModifyVerbs == {"modify the ", "change ", "Update the "}
ModifyOnly(verb, name) == verb \o name

\* the commands of the design's scenarios
Scenarios ==
  {DeleteBetween(x, y) : x \in SpokenTimes, y \in SpokenTimes}
    \cup {CreateAt(x) : x \in SpokenTimes} \cup {CreateUntimed}
    \cup {CreateFromTo(x, y) : x \in SpokenTimes, y \in SpokenTimes}
    \cup {ModifyWithClause(name, who) : name \in EventNames, who \in Qualifiers}
    \cup {ModifyOnly(verb, name) : verb \in ModifyVerbs, name \in EventNames}

\* the non-empty command texts /api/command hands to parseCommand
Commands == CommandsOf(MaxFrags) \cup Scenarios

\* wall-clock dates: a Thursday, and a Monday at the end of a year
Nows == { [y |-> 2025, m |-> 10, d |-> 23], [y |-> 2025, m |-> 12, d |-> 29] }

\* objects the remote model may answer with: calendarSchema makes every
\* property optional and does not relate the details objects to the intent
RemoteResults ==
  LET ev == [title |-> "Team meeting", date |-> "2025-10-24", startTime |-> "15:00:00"]
      qd == [targetDate |-> "2025-10-23"]
      md == [eventName |-> "Product call", startTime |-> "16:00:00"]
      dd == [targetDate |-> "2025-10-23", startTime |-> "16:00:00", endTime |-> "18:00:00"]
  IN  { [intent |-> "CREATE_EVENT", eventDetails |-> ev, useLocalFallback |-> FALSE],
        [intent |-> "QUERY_EVENTS", queryDetails |-> qd],
        [intent |-> "MODIFY_EVENT", modifyDetails |-> md, useLocalFallback |-> FALSE],
        [intent |-> "DELETE_EVENTS", deleteDetails |-> dd, useLocalFallback |-> FALSE],
        [intent |-> "MODIFY_EVENT", useLocalFallback |-> FALSE,
         clarificationNeeded |-> [message |-> "Which event?", options |-> <<>>]],
        [intent |-> "CREATE_EVENT", eventDetails |-> ev, queryDetails |-> qd],
        [intent |-> "QUERY_EVENTS", deleteDetails |-> dd, useLocalFallback |-> TRUE],
        [useLocalFallback |-> FALSE] }

\* ways the remote attempt fails: generateContent rejects, the response has
\* no usable text, the text is not JSON
RemoteFailures == {"transport", "nonconforming", "badjson"}

(***************************************************************************)
(* parseCommand                                                            *)
(***************************************************************************)
VARIABLES
  commandText,    \* the argument of parseCommand
  now,            \* the wall-clock date
  pc,             \* the position of the running call: in parseCommand "called",
                  \* "awaiting" (generateContent in flight), "done"
  remoteLog,      \* the command texts sent to generateContent, in order
  localLog,       \* the arguments of the calls of parseCommandLocally, in order
  remoteOutcome,  \* "none", "success" or a member of RemoteFailures
  localOutcome,   \* what parseCommandLocally returned or threw, NoOutcome before
  outcome         \* what parseCommand returned or threw, NoOutcome before

\* the state of calendarService.js and of a request to /api/command
VARIABLES
  calendarTokens, \* the module variable calendarTokens, Null until set
  events,         \* the events the primary calendar stores
  calls,          \* the Calendar API calls issued, in order
  details,        \* the argument of the running calendarService function
  frame,          \* the local variables of the running calendarService function
  response,       \* the answer of /api/command or of the calendarService call
  zone            \* the server's time zone, minutes east of UTC

service == <<calendarTokens, events, calls, details, frame, response, zone>>

vars ==
  <<commandText, now, pc, remoteLog, localLog, remoteOutcome, localOutcome, outcome, service>>

NoOutcome == [kind |-> "none"]

\* no tokens, an empty calendar, no request and no calendarService call
ServiceIdle ==
  /\ calendarTokens = Null
  /\ events = {}
  /\ calls = <<>>
  /\ details = Null
  /\ frame = Null
  /\ response = NoOutcome
  /\ zone = 0

Init ==
  /\ commandText \in Commands
  /\ now \in Nows
  /\ pc = "called"
  /\ remoteLog = <<>>
  /\ localLog = <<>>
  /\ remoteOutcome = "none"
  /\ localOutcome = NoOutcome
  /\ outcome = NoOutcome
  /\ ServiceIdle

\* parseCommand up to the await of ai.models.generateContent
CallRemote ==
  /\ pc = "called"
  /\ remoteLog' = Append(remoteLog, commandText)
  /\ pc' = "awaiting"
  /\ UNCHANGED <<commandText, now, localLog, remoteOutcome, localOutcome, outcome>>
  /\ UNCHANGED service

\* the promise resolves and JSON.parse(response.text) succeeds
RemoteSucceeds ==
  /\ pc = "awaiting"
  /\ \E parsedResult \in RemoteResults : outcome' = Returned(parsedResult)
  /\ remoteOutcome' = "success"
  /\ pc' = "done"
  /\ UNCHANGED <<commandText, now, remoteLog, localLog, localOutcome>>
  /\ UNCHANGED service

\* a catch block that tries the remote call once more before falling back
RemoteFailsRetrying ==
  /\ pc = "awaiting"
  /\ remoteLog' = Append(remoteLog, commandText)
  /\ localLog' = Append(localLog, commandText)
  /\ localOutcome' = parseCommandLocally(commandText, now)
  /\ outcome' = localOutcome'
  /\ pc' = "done"
  /\ UNCHANGED <<commandText, now>>
  /\ UNCHANGED service
  /\ \E failure \in RemoteFailures : remoteOutcome' = failure

\* the catch block: the local interpreter runs, its result is returned and
\* its exception leaves parseCommand
RemoteFails ==
  /\ pc = "awaiting"
  /\ localLog' = Append(localLog, commandText)
  /\ localOutcome' = parseCommandLocally(commandText, now)
  /\ outcome' = localOutcome'
  /\ pc' = "done"
  /\ UNCHANGED <<commandText, now, remoteLog>>
  /\ UNCHANGED service
  /\ \E failure \in RemoteFailures : remoteOutcome' = failure

Next == CallRemote \/ RemoteSucceeds \/ RemoteFails

Spec == Init /\ [][Next]_vars

(***************************************************************************)
(* resolveDate and convertTo24Hour called on their own.  commandText holds *)
(* the argument (dateStr, timeStr), outcome what the call returned.        *)
(***************************************************************************)
\* the number of consecutive wall-clock dates tried
MaxDays == 10

FirstNow == [y |-> 2025, m |-> 10, d |-> 23]

\* the last day of a year, and the last days of February in a leap year
BoundaryNows ==
  { [y |-> 2025, m |-> 12, d |-> 31], [y |-> 2024, m |-> 2, d |-> 28],
    [y |-> 2024, m |-> 2, d |-> 29] }

\* every weekday, a change of month, the dates of Nows and the boundaries
DateNows == {AddDays(FirstNow, k) : k \in 0..(MaxDays - 1)} \cup Nows \cup BoundaryNows

MonthTexts == {"1", "10"}
DayTexts == {"7", "27"}
YearTexts == {"2025", "25", "999"}

\* date tokens the date pattern of parseCommandLocally captures
SlashDates ==
  {m \o "/" \o d \o "/" \o y : m \in MonthTexts, d \in DayTexts, y \in YearTexts}

DateStrings ==
  {"today", "Tomorrow", "next monday", "Next Monday", "next  monday"}
    \cup {m \o "/" \o d : m \in MonthTexts, d \in DayTexts} \cup SlashDates

DateInit ==
  /\ commandText \in DateStrings
  /\ now \in DateNows
  /\ pc = "date"
  /\ remoteLog = <<>>
  /\ localLog = <<>>
  /\ remoteOutcome = "none"
  /\ localOutcome = NoOutcome
  /\ outcome = NoOutcome
  /\ ServiceIdle

\* resolveDate(dateStr)
ResolveDate ==
  /\ pc = "date"
  /\ outcome' = Returned(resolveDate(commandText, now))
  /\ pc' = "dated"
  /\ UNCHANGED <<commandText, now, remoteLog, localLog, remoteOutcome, localOutcome>>
  /\ UNCHANGED service

DateNext == ResolveDate

DateSpec == DateInit /\ [][DateNext]_vars

\* the largest hour written in a time string
MaxHour == 13

HourTexts == {ToString(h) : h \in 0..MaxHour} \cup {"03", "09"}
MinuteTexts == {"00", "05", "30"}
MeridiemTexts == {"", " am", " pm", " PM", "am", "pm", "AM"}

\* time strings the time pattern of parseCommandLocally captures
TimeStrings ==
  {h \o ":" \o mm \o mer : h \in HourTexts, mm \in MinuteTexts, mer \in MeridiemTexts}

TimeInit ==
  /\ commandText \in TimeStrings
  /\ now = FirstNow
  /\ pc = "time"
  /\ remoteLog = <<>>
  /\ localLog = <<>>
  /\ remoteOutcome = "none"
  /\ localOutcome = NoOutcome
  /\ outcome = NoOutcome
  /\ ServiceIdle

\* convertTo24Hour(timeStr)
ConvertTime ==
  /\ pc = "time"
  /\ outcome' = Returned(convertTo24Hour(commandText))
  /\ pc' = "timed"
  /\ UNCHANGED <<commandText, now, remoteLog, localLog, remoteOutcome, localOutcome>>
  /\ UNCHANGED service

TimeNext == ConvertTime

TimeSpec == TimeInit /\ [][TimeNext]_vars

(***************************************************************************)
(* Properties                                                              *)
(***************************************************************************)
DetailsOf ==
  [i \in Intents |->
     CASE i = "CREATE_EVENT" -> "eventDetails"
       [] i = "QUERY_EVENTS" -> "queryDetails"
       [] i = "MODIFY_EVENT" -> "modifyDetails"
       [] i = "DELETE_EVENTS" -> "deleteDetails"]

\* the lowercased command text and the keyword predicates as the design states them
Lowered == toLowerCase(commandText)
SaysDelete == includes(Lowered, "cancel") \/ includes(Lowered, "delete")
SaysCreate == includes(Lowered, "schedule") \/ includes(Lowered, "create") \/ includes(Lowered, "set up")
SaysQuery == /\ includes(Lowered, "what") /\ includes(Lowered, "calendar")
             /\ (includes(Lowered, "have") \/ includes(Lowered, "on"))
SaysModify == \/ includes(Lowered, "modify") \/ includes(Lowered, "change")
              \/ includes(Lowered, "update") \/ includes(Lowered, "modified")

LocalRan == localLog # <<>>
LocalReturned == LocalRan /\ localOutcome.kind = "return"
RemoteFailed == remoteOutcome \in RemoteFailures

\* C1: one remote attempt per call, never a second one; after a failed attempt
\* the local interpreter is invoked exactly once with the same command text
\* and what it yields is what parseCommand yields; after a successful attempt
\* the local interpreter is not invoked.
C1_OneShotFailover ==
  /\ Len(remoteLog) <= 1
  /\ pc = "done" =>
       /\ remoteLog = <<commandText>>
       /\ RemoteFailed => localLog = <<commandText>> /\ outcome = localOutcome
       /\ remoteOutcome = "success" => localLog = <<>> /\ localOutcome = NoOutcome

C1_Witness ==
  /\ pc = "done" /\ remoteOutcome = "badjson"
  /\ localLog = <<commandText>> /\ outcome.kind = "return"

\* C2: whatever the remote call does, parseCommand completes by returning a
\* result object; nothing is thrown to the caller.
C2_AlwaysReturns == pc = "done" => outcome.kind = "return"

\* C3: parseCommandLocally returns a result object for every command text and
\* never throws.
C3_LocalIsTotal == LocalRan => localOutcome.kind = "return"

\* C4: a result returned by parseCommand carries at most one details object,
\* and the one it carries is the one of its intent.
C4_OneDetailsOfIntent ==
  pc = "done" /\ outcome.kind = "return" =>
    LET r == outcome.value
        present == DOMAIN r \cap DetailsFields
    IN  /\ Cardinality(present) <= 1
        /\ \A f \in present : Has(r, "intent") /\ r.intent \in Intents /\ f = DetailsOf[r.intent]

\* C5: a result of parseCommandLocally that carries clarificationNeeded does
\* not carry the details object of its intent.
C5_ClarificationDropsDetails ==
  LocalReturned /\ Has(localOutcome.value, "clarificationNeeded") =>
    /\ Has(localOutcome.value, "intent")
    /\ ~Has(localOutcome.value, DetailsOf[localOutcome.value.intent])

C5_Witness ==
  /\ LocalReturned
  /\ Has(localOutcome.value, "clarificationNeeded")
  /\ localOutcome.value.intent = "MODIFY_EVENT"
  /\ MatchTimeRange(commandText) # NoMatch

\* a resolved time that is a clock time HH:MM:SS, and its second of the day
IsClock(t) ==
  /\ Len(t) = 8
  /\ \A k \in {1, 2, 4, 5, 7, 8} : IsDigit(Ch(t, k))
  /\ Ch(t, 3) = ":" /\ Ch(t, 6) = ":"
  /\ parseInt(SubSeq(t, 1, 2)) < 24 /\ parseInt(SubSeq(t, 4, 5)) < 60
  /\ parseInt(SubSeq(t, 7, 8)) < 60

SecondOfDay(t) ==
  parseInt(SubSeq(t, 1, 2)) * 3600 + parseInt(SubSeq(t, 4, 5)) * 60 + parseInt(SubSeq(t, 7, 8))

\* C6: in a result of parseCommandLocally, a details object that carries a
\* start and an end time has the start strictly earlier in the day than the end.
C6_StartBeforeEnd ==
  LocalReturned =>
    \A f \in DOMAIN localOutcome.value \cap DetailsFields :
      LET d == localOutcome.value[f] IN
      Has(d, "startTime") /\ Has(d, "endTime") /\ Truthy(d.startTime) /\ Truthy(d.endTime) =>
        /\ IsClock(d.startTime) /\ IsClock(d.endTime)
        /\ SecondOfDay(d.startTime) < SecondOfDay(d.endTime)

\* the start and end times a command resolves to in its branch, <<>> when
\* the branch does not get to a pair of times
ResolvedTimes ==
  LET range == MatchTimeRange(commandText)
      at == MatchPhraseTime(commandText, <<(<<"at">>)>>)
      to == MatchPhraseTime(commandText, <<(<<"to">>)>>)
      startAt == MatchPhraseTime(commandText, <<(<<"to", "start", "at">>), (<<"at">>)>>)
      endAt == MatchPhraseTime(commandText, <<(<<"to", "end", "at">>)>>)
  IN  IF SaysDelete
      THEN IF MatchPrefixedDate(commandText) # NoMatch /\ range # NoMatch
           THEN <<convertTo24Hour(range[1]), convertTo24Hour(range[2])>> ELSE <<>>
      ELSE IF SaysCreate
      THEN IF MatchTitle(commandText) # NoMatch /\ MatchDate(commandText) # NoMatch /\ to # NoMatch
           THEN <<IF at # NoMatch THEN convertTo24Hour(at[1]) ELSE "09:00:00",
                  convertTo24Hour(to[1])>>
           ELSE <<>>
      ELSE IF ~SaysQuery /\ SaysModify /\ MatchName(commandText) # NoMatch
      THEN IF range # NoMatch
           THEN <<convertTo24Hour(range[1]), convertTo24Hour(range[2])>>
           ELSE IF startAt # NoMatch /\ endAt # NoMatch
           THEN <<convertTo24Hour(startAt[1]), convertTo24Hour(endAt[1])>>
           ELSE <<>>
      ELSE <<>>

\* C7: when the resolved start is not before the resolved end, the local
\* interpreter returns (does not throw) a result with clarificationNeeded
\* and without the details object of its intent.
C7_InvalidRangeClarified ==
  LocalRan /\ ResolvedTimes # <<>> /\ StrGeq(ResolvedTimes[1], ResolvedTimes[2]) =>
    /\ localOutcome.kind = "return"
    /\ Has(localOutcome.value, "clarificationNeeded")
    /\ localOutcome.value.intent \in {"CREATE_EVENT", "MODIFY_EVENT", "DELETE_EVENTS"}
    /\ ~Has(localOutcome.value, DetailsOf[localOutcome.value.intent])

\* C8: a command that contains "cancel" or "delete" gets intent DELETE_EVENTS
\* from the local interpreter, whatever other keywords it contains.
C8_DeleteWins ==
  LocalRan /\ SaysDelete =>
    /\ localOutcome.kind = "return"
    /\ Has(localOutcome.value, "intent")
    /\ localOutcome.value.intent = "DELETE_EVENTS"

C8_Witness ==
  /\ LocalReturned /\ includes(Lowered, "delete") /\ (SaysCreate \/ SaysModify)
  /\ localOutcome.value.intent = "DELETE_EVENTS"

\* C9: without "cancel" and "delete", the first matching predicate in the
\* order create, query, modify decides the one intent of the result; the
\* only call that does not return is one classified CREATE_EVENT.
C9_FirstMatchWins ==
  LocalRan /\ ~SaysDelete /\ (SaysCreate \/ SaysQuery \/ SaysModify) =>
    LET expected == IF SaysCreate THEN "CREATE_EVENT"
                    ELSE IF SaysQuery THEN "QUERY_EVENTS" ELSE "MODIFY_EVENT"
    IN  /\ localOutcome.kind = "return" =>
             Has(localOutcome.value, "intent") /\ localOutcome.value.intent = expected
        /\ localOutcome.kind # "return" => expected = "CREATE_EVENT"

C9_Witness ==
  /\ LocalReturned /\ ~SaysDelete /\ ~SaysCreate /\ SaysQuery /\ SaysModify
  /\ localOutcome.value.intent = "QUERY_EVENTS"

\* C10: a command that matches none of the four keyword predicates yields a
\* result with useLocalFallback = true and nothing else.
C10_NoMatchIsBare ==
  LocalRan /\ ~SaysDelete /\ ~SaysCreate /\ ~SaysQuery /\ ~SaysModify =>
    /\ localOutcome.kind = "return"
    /\ DOMAIN localOutcome.value = {"useLocalFallback"}
    /\ localOutcome.value.useLocalFallback = TRUE

C10_Witness ==
  /\ LocalReturned /\ ~SaysDelete /\ ~SaysCreate /\ ~SaysQuery /\ ~SaysModify
  /\ MatchDate(commandText) # NoMatch
  /\ DOMAIN localOutcome.value = {"useLocalFallback"}

\* C11: a result parseCommand returns carries useLocalFallback = true exactly
\* when parseCommandLocally produced it; a result of the remote path never does.
C11_FallbackFlagIffLocal ==
  (pc = "done" /\ outcome.kind = "return") =>
    ((Has(outcome.value, "useLocalFallback") /\ outcome.value.useLocalFallback = TRUE)
       <=> LocalRan)

\* a two-digit decimal number, as the design writes hours, months and days
Pad2(n) == IF n < 10 THEN "0" \o ToString(n) ELSE ToString(n)

\* the days from a weekday (0 = Sunday) to the Monday after it, a full week
\* when the day is itself a Monday
DaysToNextMonday(weekday) == IF weekday = 1 THEN 7 ELSE (1 - weekday + 7) % 7

\* C12: resolveDate("next monday") returns the date (1 - weekday + 7) mod 7
\* days after now, 7 days after when now is a Monday: always a Monday
\* strictly after now.
C12_NextMondayInFuture ==
  (pc = "dated" /\ toLowerCase(commandText) = "next monday") =>
    /\ outcome.value = ISODate(AddDays(now, DaysToNextMonday(getDay(now))))
    /\ outcome.value # ISODate(now)
    /\ getDay(AddDays(now, DaysToNextMonday(getDay(now)))) = 1

\* the hour of the 24-hour clock for hour h of the 12-hour clock
ClockHour(h, meridiem) ==
  IF meridiem = "pm" /\ h # 12 THEN h + 12
  ELSE IF meridiem = "am" /\ h = 12 THEN 0
  ELSE h

\* HH:MM:SS with seconds 00
Clock(hour, mm) == Pad2(hour) \o ":" \o mm \o ":00"

\* C13: every time string the time pattern accepts, am/pm written with or
\* without a separating space, is converted to HH:MM:SS with 12 added to pm
\* hours other than 12 and hour 12 am turned into 00.
C13_AcceptedTimesConverted ==
  (pc = "timed" /\ TimeEnd(toLowerCase(commandText), 1) = Len(commandText) + 1) =>
    \A h \in 1..12, mm \in MinuteTexts, sep \in {"", " "}, meridiem \in {"am", "pm"} :
      toLowerCase(commandText) = ToString(h) \o ":" \o mm \o sep \o meridiem
        => outcome.value = Clock(ClockHour(h, meridiem), mm)

\* C14: "H:MM am" and "H:MM pm" with one space and 1 <= H <= 12 are converted
\* to hour H + 12 for pm unless H = 12, hour 00 for 12 am, hour H otherwise,
\* with the minutes kept and seconds 00.
C14_SpacedTimesConverted ==
  pc = "timed" =>
    \A h \in 1..12, mm \in MinuteTexts, meridiem \in {"am", "pm"} :
      toLowerCase(commandText) = ToString(h) \o ":" \o mm \o " " \o meridiem
        => outcome.value = Clock(ClockHour(h, meridiem), mm)

C14_Witness == pc = "timed" /\ commandText = "12:00 am" /\ outcome.value = "00:00:00"

\* the time of day a spoken 12-hour time names
SpokenClock ==
  [t \in SpokenTimes |->
     CASE t \in {"4 pm", "4:00 pm"} -> "16:00:00"
       [] t = "5 pm" -> "17:00:00"
       [] t \in {"6 pm", "6:00 pm"} -> "18:00:00"
       [] t \in {"3 PM", "3:00 PM"} -> "15:00:00"]

\* C15: a delete command with a date token and a range "between X and Y", X
\* earlier than Y, the times possibly hour-only, yields DELETE_EVENTS with
\* the resolved targetDate and the 24-hour values of X and Y.
C15_DeleteRangeResolved ==
  LocalReturned =>
    \A x \in SpokenTimes, y \in SpokenTimes :
      (commandText = DeleteBetween(x, y) /\ StrLess(SpokenClock[x], SpokenClock[y])) =>
        /\ Has(localOutcome.value, "intent")
        /\ localOutcome.value.intent = "DELETE_EVENTS"
        /\ Has(localOutcome.value, "deleteDetails")
        /\ localOutcome.value.deleteDetails =
             [targetDate |-> ISODate(now), startTime |-> SpokenClock[x],
              endTime |-> SpokenClock[y]]

\* C16: a create command with a title, a date and "at <time>", the time
\* possibly hour-only, yields eventDetails with the 24-hour value of the time
\* as startTime and a null endTime; startTime is 09:00:00 only when the
\* command has no start time.
C16_CreateStartResolved ==
  LocalReturned =>
    /\ \A x \in SpokenTimes :
         commandText = CreateAt(x) =>
           /\ Has(localOutcome.value, "eventDetails")
           /\ localOutcome.value.eventDetails.startTime = SpokenClock[x]
           /\ localOutcome.value.eventDetails.endTime = Null
    /\ commandText = CreateUntimed =>
         /\ Has(localOutcome.value, "eventDetails")
         /\ localOutcome.value.eventDetails.startTime = "09:00:00"

\* C17: a create command with a range "from X to Y", X not earlier than Y,
\* yields a result with clarificationNeeded and without eventDetails.
C17_CreateBadRangeClarified ==
  LocalRan =>
    \A x \in SpokenTimes, y \in SpokenTimes :
      (commandText = CreateFromTo(x, y) /\ StrGeq(SpokenClock[x], SpokenClock[y])) =>
        /\ localOutcome.kind = "return"
        /\ Has(localOutcome.value, "clarificationNeeded")
        /\ ~Has(localOutcome.value, "eventDetails")

\* C18: the eventName of a modify command is the captured name phrase up to
\* its " with <name>" clause; no eventName contains " with ".
C18_WithClauseStripped ==
  (LocalReturned /\ Has(localOutcome.value, "modifyDetails")) =>
    /\ ~includes(localOutcome.value.modifyDetails.eventName, " with ")
    /\ \A name \in EventNames, who \in Qualifiers :
         commandText = ModifyWithClause(name, who)
           => localOutcome.value.modifyDetails.eventName = name

C18_Witness ==
  /\ LocalReturned
  /\ commandText = "modify the product call with Sharan to start at 4 PM"
  /\ Has(localOutcome.value, "modifyDetails")
  /\ localOutcome.value.modifyDetails.eventName = "product call"

\* C19: a modify command that is only the verb, an optional "the" and an
\* event name running to the end of the string yields modifyDetails with
\* that eventName.
C19_NameToEndOfString ==
  LocalReturned =>
    \A verb \in ModifyVerbs, name \in EventNames :
      commandText = ModifyOnly(verb, name) =>
        /\ Has(localOutcome.value, "modifyDetails")
        /\ localOutcome.value.modifyDetails.eventName = name

\* YYYY-MM-DD
IsISODate(s) ==
  /\ Len(s) = 10
  /\ \A i \in {1, 2, 3, 4, 6, 7, 9, 10} : SubSeq(s, i, i) \in DigitSet
  /\ SubSeq(s, 5, 5) = "-" /\ SubSeq(s, 8, 8) = "-"

\* C20: an M/D/Y token with a year of 2 to 4 digits resolves to a zero-padded
\* YYYY-MM-DD string with that year, month and day; an M/D token, and any
\* token other than today, tomorrow, next monday and a slash date, resolves
\* to now's date.
C20_SlashDatesResolved ==
  pc = "dated" =>
    /\ \A m \in MonthTexts, d \in DayTexts, y \in YearTexts :
         commandText = m \o "/" \o d \o "/" \o y =>
           /\ IsISODate(outcome.value)
           /\ parseInt(SubSeq(outcome.value, 1, 4)) = parseInt(y)
           /\ parseInt(SubSeq(outcome.value, 6, 7)) = parseInt(m)
           /\ parseInt(SubSeq(outcome.value, 9, 10)) = parseInt(d)
    /\ (/\ toLowerCase(commandText) \notin {"today", "tomorrow", "next monday"}
        /\ commandText \notin SlashDates)
         => outcome.value = ISODate(now)

\* runs of consecutive calendar days, written out
ConsecutiveDays ==
  { <<"2025-10-23", "2025-10-24", "2025-10-25", "2025-10-26", "2025-10-27",
      "2025-10-28", "2025-10-29", "2025-10-30", "2025-10-31", "2025-11-01",
      "2025-11-02", "2025-11-03", "2025-11-04">>,
    <<"2025-12-29", "2025-12-30", "2025-12-31", "2026-01-01">>,
    <<"2024-02-28", "2024-02-29", "2024-03-01">> }

\* the calendar date of now as YYYY-MM-DD
DateOfNow == ToString(now.y) \o "-" \o Pad2(now.m) \o "-" \o Pad2(now.d)

\* is next the calendar day after day
DayAfter(day, next) ==
  \E run \in ConsecutiveDays : \E i \in 1..(Len(run) - 1) : run[i] = day /\ run[i + 1] = next

C22_SilentlyUnresolved ==
  (LocalReturned /\ ~SaysDelete) =>
    /\ (SaysCreate /\ (MatchTitle(commandText) = NoMatch \/ MatchDate(commandText) = NoMatch))
         => localOutcome.value = [useLocalFallback |-> TRUE, intent |-> "CREATE_EVENT"]
    /\ (~SaysCreate /\ SaysQuery /\ MatchForDate(commandText) = NoMatch)
         => localOutcome.value = [useLocalFallback |-> TRUE, intent |-> "QUERY_EVENTS"]

C22_Witness ==
  /\ LocalReturned
  /\ commandText = "schedule team sync today from 6 pm to 5 pm"
  /\ MatchTitle(commandText) = NoMatch /\ MatchDate(commandText) # NoMatch
  /\ DOMAIN localOutcome.value = {"useLocalFallback", "intent"}

\* C23: a DELETE_EVENTS command in which no date token is found yields
\* clarificationNeeded with an empty options list and no deleteDetails,
\* with or without a time range.
C23_DeleteNeedsDate ==
  (LocalReturned /\ SaysDelete /\ MatchDate(commandText) = NoMatch) =>
    /\ Has(localOutcome.value, "clarificationNeeded")
    /\ localOutcome.value.clarificationNeeded.options = <<>>
    /\ ~Has(localOutcome.value, "deleteDetails")

C23_Witness ==
  /\ LocalReturned /\ SaysDelete
  /\ MatchDate(commandText) = NoMatch /\ MatchTimeRange(commandText) # NoMatch
  /\ Has(localOutcome.value, "clarificationNeeded")

(***************************************************************************)
(* Date: instants are seconds since 1970-01-01T00:00:00Z, NaN the time     *)
(* value of an Invalid Date.                                               *)
(***************************************************************************)
NaN == 0 - 1

\* the day number of a calendar date, days since 1970-01-01
DaysFromCivil(y, m, d) ==
  LET yy  == IF m <= 2 THEN y - 1 ELSE y
      era == yy \div 400
      yoe == yy - era * 400
      mp  == IF m > 2 THEN m - 3 ELSE m + 9
      doy == (153 * mp + 2) \div 5 + d - 1
  IN  era * 146097 + yoe * 365 + yoe \div 4 - yoe \div 100 + doy - 719468

\* the calendar date of day doy of the year that began in March of year y
CivilOfYearDay(y, doy, mp) ==
  [y |-> IF mp < 10 THEN y ELSE y + 1,
   m |-> IF mp < 10 THEN mp + 3 ELSE mp - 9,
   d |-> doy - (153 * mp + 2) \div 5 + 1]

CivilOfEraDay(era, doe, yoe) ==
  CivilOfYearDay(yoe + era * 400,
                 doe - (365 * yoe + yoe \div 4 - yoe \div 100),
                 (5 * (doe - (365 * yoe + yoe \div 4 - yoe \div 100)) + 2) \div 153)

\* the calendar date of a day number
CivilFromDays(z) ==
  LET era == (z + 719468) \div 146097
      doe == (z + 719468) - era * 146097
  IN  CivilOfEraDay(era, doe,
                    (doe - doe \div 1460 + doe \div 36524 - doe \div 146096) \div 365)

\* the time value of YYYY-MM-DD, NaN when it is not a calendar date
DateValue(s) ==
  IF ~IsISODate(s) THEN NaN
  ELSE LET y == parseInt(SubSeq(s, 1, 4))
           m == parseInt(SubSeq(s, 6, 7))
           d == parseInt(SubSeq(s, 9, 10))
       IN  IF m \in 1..12 /\ d >= 1 /\ d <= DaysInMonth(y, m)
           THEN DaysFromCivil(y, m, d) * 86400
           ELSE NaN

\* the offset of a date-time string from UTC in seconds, suffix what follows
\* the seconds: none is local time, Z and .000Z are UTC
OffsetOf(suffix, zoneMinutes) ==
  IF suffix = "" THEN zoneMinutes * 60
  ELSE IF suffix \in {"Z", ".000Z"} THEN 0
  ELSE NaN

DateTimeValue(day, clock, suffix, zoneMinutes) ==
  IF day = NaN \/ ~IsClock(clock) \/ OffsetOf(suffix, zoneMinutes) = NaN THEN NaN
  ELSE day + SecondOfDay(clock) - OffsetOf(suffix, zoneMinutes)

\* new Date(s).getTime() of a date-time string YYYY-MM-DDTHH:MM:SS, Invalid
\* Date for any other string
DateParse(s, zoneMinutes) ==
  IF Len(s) < 19 \/ Ch(s, 11) # "T" THEN NaN
  ELSE DateTimeValue(DateValue(SubSeq(s, 1, 10)), SubSeq(s, 12, 19),
                     SubSeq(s, 20, Len(s)), zoneMinutes)

\* HH:MM:SS of a second of the day
ClockOf(sec) == Pad2(sec \div 3600) \o ":" \o Pad2((sec % 3600) \div 60) \o ":" \o Pad2(sec % 60)

\* date.toISOString().split('T')[0] of a valid instant
UTCDateOf(t) == ISODate(CivilFromDays(t \div 86400))

\* date.toISOString().slice(11, 19) of a valid instant
UTCTimeOf(t) == ClockOf(t % 86400)

\* Date.prototype.toISOString of a valid instant
toISOString(t) == UTCDateOf(t) \o "T" \o UTCTimeOf(t) \o ".000Z"

(***************************************************************************)
(* calendarService.js and the /api/command handler of index.js.  The       *)
(* calendar stores the resources handed to events.insert and events.update;*)
(* calls lists the Calendar API requests in the order they were issued.    *)
(***************************************************************************)
\* the offset of Asia/Kolkata from UTC in minutes
IST == 330

\* time zones of the server
Zones == {0, IST}

\* Intl.DateTimeFormat().resolvedOptions().timeZone
ZoneName(zoneMinutes) == IF zoneMinutes = IST THEN "Asia/Kolkata" ELSE "UTC"

ZoneOffset(timeZone) == IF timeZone = "Asia/Kolkata" THEN IST ELSE 0

\* the instant the calendar takes a start or end {dateTime, timeZone} for:
\* timeZone applies to a dateTime that names no offset of its own
InstantOf(stamp) == DateParse(stamp.dateTime, ZoneOffset(stamp.timeZone))

\* o.f of an object, Null when o has no property f
Get(o, f) == IF Has(o, f) THEN o[f] ELSE Null

\* an object-valued property that is missing
undefined == [undefined |-> TRUE]

\* o.f of an object whose property f, when present, is an object
Member(o, f) == IF Has(o, f) THEN o[f] ELSE undefined

\* a value inside a template literal
Interp(v) == IF v = Null THEN "undefined" ELSE v

\* an event of the calendar as events.get and events.list return it: the
\* dateTime strings carry their offset
StoredEvent(id, summary, startDateTime, endDateTime) ==
  [id |-> id, summary |-> summary, description |-> Null,
   start |-> [dateTime |-> startDateTime, timeZone |-> "UTC"],
   end |-> [dateTime |-> endDateTime, timeZone |-> "UTC"]]

\* the items events.list answers with: the events that end after timeMin
\* and start before timeMax
Listed(calendar, timeMin, timeMax) ==
  {e \in calendar : InstantOf(e.end) > timeMin /\ InstantOf(e.start) < timeMax}

\* the credentials of the OAuth exchange
Tokens == "ya29.a0"

\* setCalendarTokens(tokens), called by the /oauth2callback route
SetCalendarTokens ==
  /\ pc = "idle"
  /\ calendarTokens = Null
  /\ calendarTokens' = Tokens
  /\ UNCHANGED <<commandText, now, pc, remoteLog, localLog, remoteOutcome, localOutcome, outcome>>
  /\ UNCHANGED <<events, calls, details, frame, response, zone>>

isAuthenticated(tokens) == tokens # Null

\* res.status(code).json({status, message})
Respond(code, status, message) == [status |-> code, body |-> [status |-> status, message |-> message]]

\* the event createCalendarEvent hands to events.insert when details.endTime
\* is missing: the end is an hour after the start, written by toISOString
EventEndingLater(event, start) ==
  IF start = NaN THEN Thrown("RangeError: Invalid time value")
  ELSE Returned([event EXCEPT !.end.dateTime = toISOString(start + 3600)])

\* createCalendarEvent from the template literals to the request of events.insert
EventToInsert(eventDetails, startDateTime, timeZone, zoneMinutes) ==
  IF Truthy(Get(eventDetails, "endTime"))
  THEN Returned([summary |-> Get(eventDetails, "title"),
                 description |-> Get(eventDetails, "description"),
                 start |-> [dateTime |-> startDateTime, timeZone |-> timeZone],
                 end |-> [dateTime |-> Interp(Get(eventDetails, "date")) \o "T" \o eventDetails.endTime,
                          timeZone |-> timeZone]])
  ELSE EventEndingLater([summary |-> Get(eventDetails, "title"),
                         description |-> Get(eventDetails, "description"),
                         start |-> [dateTime |-> startDateTime, timeZone |-> timeZone],
                         end |-> [dateTime |-> startDateTime, timeZone |-> timeZone]],
                        DateParse(startDateTime, zoneMinutes))

\* a createCalendarEvent that takes missing details for an event without fields
InsertRequestLenient(eventDetails, zoneMinutes) ==
  IF eventDetails = undefined
  THEN Returned([summary |-> Null, description |-> Null,
                 start |-> [dateTime |-> "undefinedTundefined", timeZone |-> ZoneName(zoneMinutes)],
                 end |-> [dateTime |-> "undefinedTundefined", timeZone |-> ZoneName(zoneMinutes)]])
  ELSE EventToInsert(eventDetails,
                     Interp(Get(eventDetails, "date")) \o "T" \o Interp(Get(eventDetails, "startTime")),
                     ZoneName(zoneMinutes), zoneMinutes)

\* createCalendarEvent(details) up to the await of events.insert: the request,
\* or the error thrown before it (details.date of undefined is a TypeError)
InsertRequest(eventDetails, zoneMinutes) ==
  IF eventDetails = undefined
  THEN Thrown("TypeError: Cannot read properties of undefined (reading 'date')")
  ELSE EventToInsert(eventDetails,
                     Interp(Get(eventDetails, "date")) \o "T" \o Interp(Get(eventDetails, "startTime")),
                     ZoneName(zoneMinutes), zoneMinutes)

\* the commands posted to /api/command; the empty text stands for a missing one
ApiCommands ==
  Fragments \cup
    { "", "schedule lunch for today at 3:00 PM", "schedule lunch for today at 3:00 PM to 8:00 am",
      "schedule lunch for today to 8:00 am", "schedule team sync today from 6 pm to 5 pm",
      "What do I have on my calendar for tomorrow" }

ApiInit ==
  /\ commandText \in ApiCommands
  /\ now \in Nows
  /\ pc = "idle"
  /\ remoteLog = <<>>
  /\ localLog = <<>>
  /\ remoteOutcome = "none"
  /\ localOutcome = NoOutcome
  /\ outcome = NoOutcome
  /\ calendarTokens = Null
  /\ events \in {{}, {StoredEvent("e1", "Standup", "2025-10-24T04:30:00Z", "2025-10-24T05:00:00Z")}}
  /\ calls = <<>>
  /\ details = Null
  /\ frame = Null
  /\ response = NoOutcome
  /\ zone \in Zones

\* the handler answers and returns
Answer(r) ==
  /\ response' = r
  /\ pc' = "responded"
  /\ UNCHANGED <<commandText, now, remoteLog, localLog, remoteOutcome, localOutcome, outcome>>
  /\ UNCHANGED <<calendarTokens, events, calls, details, frame, zone>>

\* if (!isAuthenticated()) return res.status(401)
Unauthorized ==
  /\ pc = "idle"
  /\ ~isAuthenticated(calendarTokens)
  /\ Answer(Respond(401, "error",
                    "Authentication required. Please connect your Google Calendar first."))

\* a handler that looks at commandText before it asks for authentication
MissingCommandFirst ==
  /\ pc = "idle"
  /\ ~Truthy(commandText)
  /\ Answer(Respond(400, "error", "No voice command text received."))

\* if (!commandText) return res.status(400), reached when authenticated
MissingCommand ==
  /\ pc = "idle"
  /\ isAuthenticated(calendarTokens)
  /\ ~Truthy(commandText)
  /\ Answer(Respond(400, "error", "No voice command text received."))

\* the handler enters its try block and calls parseCommand(commandText)
ParseRequest ==
  /\ pc = "idle"
  /\ isAuthenticated(calendarTokens)
  /\ Truthy(commandText)
  /\ pc' = "called"
  /\ UNCHANGED <<commandText, now, remoteLog, localLog, remoteOutcome, localOutcome, outcome>>
  /\ UNCHANGED service

\* the catch block of the handler
CriticalError(message) ==
  Respond(500, "error", "A critical error occurred while processing your request: " \o message)

\* parseCommand rejected: the catch block of the handler answers
ParseRejected ==
  /\ pc = "done"
  /\ outcome.kind = "throw"
  /\ Answer(CriticalError(outcome.error))

\* createCalendarEvent throws before its request: its catch block wraps the
\* error and the catch block of the handler answers
CreateRejected(request) ==
  /\ request.kind = "throw"
  /\ details' = Null
  /\ response' = CriticalError("Failed to create event: " \o request.error)
  /\ pc' = "responded"
  /\ UNCHANGED <<calls, frame>>

\* createCalendarEvent awaits events.insert
CreateRequested(eventDetails, request) ==
  /\ request.kind = "return"
  /\ details' = eventDetails
  /\ frame' = request.value
  /\ calls' = Append(calls, [api |-> "insert", resource |-> request.value])
  /\ pc' = "inserting"
  /\ UNCHANGED response

CreateCalled(eventDetails, request) ==
  CreateRejected(request) \/ CreateRequested(eventDetails, request)

\* intent CREATE_EVENT: createCalendarEvent(parsedCommand.eventDetails)
CreateEvent ==
  /\ pc = "done"
  /\ outcome.kind = "return"
  /\ Get(outcome.value, "intent") = "CREATE_EVENT"
  /\ CreateCalled(Member(outcome.value, "eventDetails"),
                  InsertRequest(Member(outcome.value, "eventDetails"), zone))
  /\ UNCHANGED <<commandText, now, remoteLog, localLog, remoteOutcome, localOutcome, outcome>>
  /\ UNCHANGED <<calendarTokens, events, zone>>

EventIds == {"e1", "e2", "e3"}

\* events.insert resolves: the event is stored under a fresh id and the
\* handler answers with the success message
InsertSucceeds ==
  /\ pc = "inserting"
  /\ \E id \in EventIds :
       /\ \A e \in events : e.id # id
       /\ events' = events \cup {Put(frame, "id", id)}
  /\ response' = [status |-> 200,
                  body |-> [status |-> "success",
                            message |-> "Okay, I've successfully scheduled \""
                                          \o Interp(frame.summary) \o "\" on your calendar.",
                            data |-> [status |-> "success", title |-> frame.summary,
                                      start |-> frame.start.dateTime]]]
  /\ pc' = "responded"
  /\ UNCHANGED <<commandText, now, remoteLog, localLog, remoteOutcome, localOutcome, outcome>>
  /\ UNCHANGED <<calendarTokens, calls, details, frame, zone>>

ApiFailures == {"Network Error", "Invalid Credentials"}

\* events.insert rejects
InsertFails ==
  /\ pc = "inserting"
  /\ \E failure \in ApiFailures : Answer(CriticalError("Failed to create event: " \o failure))

\* queryCalendarEvents throws before its request, or parsedCommand has no
\* queryDetails: the catch block of the handler answers
QueryRejected(message) ==
  /\ response' = CriticalError(message)
  /\ pc' = "responded"
  /\ UNCHANGED <<calls, details, frame>>

\* queryCalendarEvents awaits events.list for the UTC day of targetDate
QueryRequested(targetDate, dayStart) ==
  /\ details' = targetDate
  /\ frame' = [timeMin |-> dayStart, timeMax |-> dayStart + 86399]
  /\ calls' = Append(calls, [api |-> "list", timeMin |-> toISOString(dayStart),
                             timeMax |-> toISOString(dayStart + 86399), maxResults |-> 10])
  /\ pc' = "querying"
  /\ UNCHANGED response

\* queryCalendarEvents(targetDate) up to the await of events.list
QueryCalled(targetDate, dayStart) ==
  IF dayStart = NaN
  THEN QueryRejected("Failed to query events: RangeError: Invalid time value")
  ELSE QueryRequested(targetDate, dayStart)

\* intent QUERY_EVENTS: queryCalendarEvents(queryDetails.targetDate)
QueryEvents ==
  /\ pc = "done"
  /\ outcome.kind = "return"
  /\ Get(outcome.value, "intent") = "QUERY_EVENTS"
  /\ IF Has(outcome.value, "queryDetails")
     THEN QueryCalled(Get(outcome.value.queryDetails, "targetDate"),
                      DateParse(Interp(Get(outcome.value.queryDetails, "targetDate")) \o "T00:00:00Z",
                                zone))
     ELSE QueryRejected("TypeError: Cannot read properties of undefined (reading 'targetDate')")
  /\ UNCHANGED <<commandText, now, remoteLog, localLog, remoteOutcome, localOutcome, outcome>>
  /\ UNCHANGED <<calendarTokens, events, zone>>

\* events.list resolves: the handler answers with the summary of the items
QuerySucceeds ==
  /\ pc = "querying"
  /\ Answer([status |-> 200,
             body |-> [status |-> "success",
                       message |-> [date |-> details,
                                    titles |-> {e.summary : e \in Listed(events, frame.timeMin, frame.timeMax)}],
                       data |-> outcome.value.queryDetails]])

\* events.list rejects
QueryFails ==
  /\ pc = "querying"
  /\ \E failure \in ApiFailures : Answer(CriticalError("Failed to query events: " \o failure))

\* any other intent, or none: the error answer of the else branch, sent by
\* res.json with the default status 200
Unrecognized ==
  /\ pc = "done"
  /\ outcome.kind = "return"
  /\ Get(outcome.value, "intent") \notin {"CREATE_EVENT", "QUERY_EVENTS"}
  /\ Answer([status |-> 200,
             body |-> [status |-> "error",
                       message |-> "I could not identify a valid calendar action (create or query) from your request. Please speak clearly.",
                       data |-> outcome.value]])

ApiNext ==
  \/ SetCalendarTokens \/ Unauthorized \/ MissingCommand \/ ParseRequest
  \/ CallRemote \/ RemoteSucceeds \/ RemoteFails
  \/ ParseRejected \/ CreateEvent \/ InsertSucceeds \/ InsertFails
  \/ QueryEvents \/ QuerySucceeds \/ QueryFails \/ Unrecognized

ApiSpec == ApiInit /\ [][ApiNext]_vars

\* the handler has answered
Responded == pc = "responded"

\* neither parseCommand nor the Calendar API was reached
NothingCalled == remoteLog = <<>> /\ localLog = <<>> /\ calls = <<>>

\* C25: a request that arrives while no tokens are set is answered 401 with
\* nothing parsed and no Calendar API call made; an authenticated request with
\* empty commandText is answered 400 with nothing parsed; an unauthenticated
\* request with empty commandText gets the 401.
C25_AuthThenCommandCheck ==
  /\ (Responded /\ calendarTokens = Null) => (response.status = 401 /\ NothingCalled)
  /\ (Responded /\ calendarTokens # Null /\ commandText = "")
       => (response.status = 400 /\ NothingCalled)
  /\ (calendarTokens = Null /\ pc # "idle") => Responded

C25_Witness ==
  /\ Responded /\ calendarTokens = Null /\ commandText = ""
  /\ response.status = 401 /\ NothingCalled

\* the parsed result is a CREATE_EVENT without eventDetails
CreateWithoutDetails ==
  /\ outcome.kind = "return"
  /\ Get(outcome.value, "intent") = "CREATE_EVENT"
  /\ ~Has(outcome.value, "eventDetails")

\* no events.insert was issued
NoInsert == \A i \in 1..Len(calls) : calls[i].api # "insert"

\* C26: when the parsed result has intent CREATE_EVENT and no eventDetails,
\* the handler issues no events.insert and answers with an error status.
C26_CreateWithoutDetailsFails ==
  CreateWithoutDetails =>
    /\ NoInsert
    /\ pc \in {"done", "responded"}
    /\ Responded => (response.status >= 400 /\ response.body.status = "error")

C26_Witness ==
  /\ Responded /\ CreateWithoutDetails
  /\ Has(outcome.value, "clarificationNeeded")
  /\ remoteOutcome # "success"
  /\ response.status = 500 /\ NoInsert

(***************************************************************************)
(* deleteCalendarEvents({targetDate, startTime, endTime}) called on its    *)
(* own.  details holds the argument, frame the listed items, the position  *)
(* of the loop and deletedCount, response what the call returned.          *)
(***************************************************************************)
\* the most events a calendar holds
MaxEvents == 3

\* the events calendars are made of: three of 2025-10-23, one that began the
\* evening before and one of the day after
EventPool ==
  { StoredEvent("e1", "Standup", "2025-10-23T09:00:00Z", "2025-10-23T09:30:00Z"),
    StoredEvent("e2", "Product call", "2025-10-23T09:30:00Z", "2025-10-23T10:30:00Z"),
    StoredEvent("e3", "Team sync", "2025-10-23T10:00:00Z", "2025-10-23T11:00:00Z"),
    StoredEvent("e4", "Release", "2025-10-22T23:30:00Z", "2025-10-23T00:30:00Z"),
    StoredEvent("e5", "Review", "2025-10-24T09:00:00Z", "2025-10-24T10:00:00Z") }

Calendars == {c \in SUBSET EventPool : Cardinality(c) <= MaxEvents}

\* window times: none, well-formed ones, and one convertTo24Hour leaves malformed
WindowTimes == {Null, "09:00:00", "10:00:00", "04:00pm:00"}

DeleteInputs ==
  [targetDate : {"2025-10-23", "10/23/2025"}, startTime : WindowTimes, endTime : WindowTimes]

\* a earlier than b in the order of events.list: by start, then by id
StartsBefore(a, b) ==
  \/ InstantOf(a.start) < InstantOf(b.start)
  \/ InstantOf(a.start) = InstantOf(b.start) /\ StrLess(SubSeq(a.id, 2, 2), SubSeq(b.id, 2, 2))

\* orderBy: 'startTime'
RECURSIVE OrderByStart(_)
OrderByStart(items) ==
  IF items = {} THEN <<>>
  ELSE LET first == CHOOSE a \in items : \A b \in items \ {a} : StartsBefore(a, b)
       IN  <<first>> \o OrderByStart(items \ {first})

\* Date.prototype.toDateString of the UTC midnight of a calendar date
toDateString(date) ==
  <<"Sun", "Mon", "Tue", "Wed", "Thu", "Fri", "Sat">>[getDay(date) + 1] \o " "
    \o <<"Jan", "Feb", "Mar", "Apr", "May", "Jun",
         "Jul", "Aug", "Sep", "Oct", "Nov", "Dec">>[date.m]
    \o " " \o Pad2(date.d) \o " " \o ToString(date.y)

\* the clarificationNeeded results of deleteCalendarEvents
EmptyWindow(startTime, endTime) ==
  [clarificationNeeded |->
     Clarification("The time range from " \o startTime \o " to " \o endTime
                     \o " is invalid or empty. Please provide a valid time range (e.g., 'between 4:00 pm and 6:00 pm').")]

HalfWindow ==
  [clarificationNeeded |->
     Clarification("Please provide both a start and end time for the range (e.g., 'between 4:00 pm and 6:00 pm').")]

DeleteFailed(message) ==
  [clarificationNeeded |-> Clarification("Failed to delete events: " \o message)]

\* startDateTime >= endDateTime on Date objects: false when either is invalid
DateGeq(a, b) == a # NaN /\ b # NaN /\ a >= b

\* a range check that lets an empty window through
WindowProblemStrict(startTime, endTime, startDateTime, endDateTime) ==
  IF Truthy(startTime) /\ Truthy(endTime)
  THEN (IF startDateTime # NaN /\ endDateTime # NaN /\ startDateTime > endDateTime
        THEN EmptyWindow(startTime, endTime) ELSE undefined)
  ELSE IF Truthy(startTime) \/ Truthy(endTime) THEN HalfWindow
  ELSE undefined

\* the validation of the window: the result to return, undefined to go on
WindowProblem(startTime, endTime, startDateTime, endDateTime) ==
  IF Truthy(startTime) /\ Truthy(endTime)
  THEN (IF DateGeq(startDateTime, endDateTime) THEN EmptyWindow(startTime, endTime) ELSE undefined)
  ELSE IF Truthy(startTime) \/ Truthy(endTime) THEN HalfWindow
  ELSE undefined

\* a window test that takes in the event that starts at endTime
InWindowInclusive(eventStartTime, startTime, endTime) ==
  IF Truthy(startTime) /\ Truthy(endTime)
  THEN StrGeq(eventStartTime, startTime) /\ StrGeq(endTime, eventStartTime)
  ELSE TRUE

\* does the loop delete an event that starts at eventStartTime
InWindow(eventStartTime, startTime, endTime) ==
  IF Truthy(startTime) /\ Truthy(endTime)
  THEN StrGeq(eventStartTime, startTime) /\ StrLess(eventStartTime, endTime)
  ELSE TRUE

\* the position of the first item at or after i that the loop deletes,
\* Len(items) + 1 when the loop runs out
RECURSIVE NextToDelete(_, _, _, _)
NextToDelete(items, i, startTime, endTime) ==
  IF i > Len(items) THEN i
  ELSE IF InWindow(UTCTimeOf(InstantOf(items[i].start)), startTime, endTime) THEN i
  ELSE NextToDelete(items, i + 1, startTime, endTime)

Plural(n) == IF n = 1 THEN "" ELSE "s"

\* the success result
DeleteResult(deletedCount, windowed, range, day) ==
  [status |-> "success",
   message |->
     IF deletedCount > 0
     THEN "Deleted " \o ToString(deletedCount) \o " meeting" \o Plural(deletedCount)
            \o (IF windowed THEN range ELSE "") \o " on " \o day \o "."
     ELSE "No meetings found" \o (IF windowed THEN range ELSE "") \o " on " \o day \o "."]

DeleteInit ==
  /\ commandText = ""
  /\ now \in {FirstNow}
  /\ pc = "delete"
  /\ remoteLog = <<>>
  /\ localLog = <<>>
  /\ remoteOutcome = "none"
  /\ localOutcome = NoOutcome
  /\ outcome = NoOutcome
  /\ calendarTokens \in {Null, Tokens}
  /\ events \in Calendars
  /\ calls = <<>>
  /\ details \in DeleteInputs
  /\ frame = Null
  /\ response = NoOutcome
  /\ zone = 0

\* deleteCalendarEvents returns result
DeleteReturns(result) ==
  /\ response' = Returned(result)
  /\ pc' = "deleted"

\* the statements before the await of events.list
DeleteStarts(dayStart, problem) ==
  IF calendarTokens = Null
  THEN DeleteReturns(DeleteFailed("User not authenticated. Calendar tokens are missing."))
         /\ UNCHANGED <<calls, frame>>
  ELSE IF dayStart = NaN
  THEN DeleteReturns(DeleteFailed("Invalid time value")) /\ UNCHANGED <<calls, frame>>
  ELSE IF problem # undefined
  THEN DeleteReturns(problem) /\ UNCHANGED <<calls, frame>>
  ELSE /\ calls' = Append(calls, [api |-> "list", timeMin |-> toISOString(dayStart),
                                  timeMax |-> toISOString(dayStart + 86399), maxResults |-> 100])
       /\ frame' = [timeMin |-> dayStart, timeMax |-> dayStart + 86399]
       /\ pc' = "listing"
       /\ UNCHANGED response

\* deleteCalendarEvents up to its first await or return
DeleteCalled ==
  /\ pc = "delete"
  /\ DeleteStarts(DateParse(details.targetDate \o "T00:00:00Z", zone),
                  WindowProblem(details.startTime, details.endTime,
                                DateParse(details.targetDate \o "T" \o details.startTime \o "Z", zone),
                                DateParse(details.targetDate \o "T" \o details.endTime \o "Z", zone)))
  /\ UNCHANGED <<commandText, now, remoteLog, localLog, remoteOutcome, localOutcome, outcome>>
  /\ UNCHANGED <<calendarTokens, events, details, zone>>

\* the loop from item i to its next await of events.delete, or past its end
\* to the return of the success result
DeleteLoop(items, i, deletedCount) ==
  IF i <= Len(items)
  THEN /\ calls' = Append(calls, [api |-> "delete", eventId |-> items[i].id])
       /\ frame' = [items |-> items, i |-> i, deletedCount |-> deletedCount]
       /\ pc' = "deleting"
       /\ UNCHANGED response
  ELSE /\ frame' = [items |-> items, i |-> i, deletedCount |-> deletedCount]
       /\ DeleteReturns(DeleteResult(deletedCount,
                                     Truthy(details.startTime) /\ Truthy(details.endTime),
                                     " between " \o details.startTime \o " and " \o details.endTime,
                                     toDateString(CivilFromDays(DateValue(details.targetDate) \div 86400))))
       /\ UNCHANGED calls

\* events.list resolves with the items in the order of their starts; the loop
\* runs to its first events.delete
DeleteListSucceeds ==
  /\ pc = "listing"
  /\ DeleteLoop(OrderByStart(Listed(events, frame.timeMin, frame.timeMax)),
                NextToDelete(OrderByStart(Listed(events, frame.timeMin, frame.timeMax)), 1,
                             details.startTime, details.endTime),
                0)
  /\ UNCHANGED <<commandText, now, remoteLog, localLog, remoteOutcome, localOutcome, outcome>>
  /\ UNCHANGED <<calendarTokens, events, details, zone>>

\* events.list or events.delete rejects: the catch block returns the failure
\* result; what was deleted before stays deleted
DeleteFails ==
  /\ pc \in {"listing", "deleting"}
  /\ \E failure \in ApiFailures : DeleteReturns(DeleteFailed(failure))
  /\ UNCHANGED <<commandText, now, remoteLog, localLog, remoteOutcome, localOutcome, outcome>>
  /\ UNCHANGED <<calendarTokens, events, calls, details, frame, zone>>

\* events.delete resolves: the event is gone, deletedCount++ and the loop
\* runs on to its next events.delete
DeleteSucceeds ==
  /\ pc = "deleting"
  /\ events' = {e \in events : e.id # frame.items[frame.i].id}
  /\ DeleteLoop(frame.items,
                NextToDelete(frame.items, frame.i + 1, details.startTime, details.endTime),
                frame.deletedCount + 1)
  /\ UNCHANGED <<commandText, now, remoteLog, localLog, remoteOutcome, localOutcome, outcome>>
  /\ UNCHANGED <<calendarTokens, details, zone>>

DeleteNext == DeleteCalled \/ DeleteListSucceeds \/ DeleteSucceeds \/ DeleteFails

DeleteSpec == DeleteInit /\ [][DeleteNext]_vars

\* the requests of one kind among the Calendar API calls
CallsOf(api) == {i \in 1..Len(calls) : calls[i].api = api}

\* the ids of the events whose deletion was requested
DeleteRequested == {calls[i].eventId : i \in CallsOf("delete")}

\* deleteCalendarEvents has returned a clarificationNeeded result
Clarified == pc = "deleted" /\ Has(response.value, "clarificationNeeded")

\* both times are clock times HH:MM:SS
ClockWindow == IsClock(details.startTime) /\ IsClock(details.endTime)

Succeeded == pc = "deleted" /\ Has(response.value, "status")

\* the second of the UTC day at which an event starts
StartSecond(e) == InstantOf(e.start) % 86400

\* the listed events the call has to delete: those that start inside the
\* window, all of them without a window
ToDelete(items) ==
  IF details.startTime = Null /\ details.endTime = Null THEN items
  ELSE {e \in items : /\ SecondOfDay(details.startTime) <= StartSecond(e)
                      /\ StartSecond(e) < SecondOfDay(details.endTime)}

\* the events.list answer, response.data.items
ListedItems == {frame.items[k] : k \in 1..Len(frame.items)}

\* the count the success message reports, 0 for "No meetings found"
ReportedCount(message) ==
  IF SubSeq(message, 1, 8) = "Deleted "
  THEN parseInt(SubSeq(message, 9, Len(message)))
  ELSE 0

\* C28: on a success result, with a window of clock times or with no window,
\* the deletions requested are exactly those of the listed events that start
\* at t with startTime <= t < endTime (all listed events without a window),
\* these events have left the calendar and the other listed events are still
\* in it, and the reported count is the number of delete calls.
C28_DeletesExactlyTheWindow ==
  (Succeeded /\ (ClockWindow \/ (details.startTime = Null /\ details.endTime = Null))) =>
    /\ DeleteRequested = {e.id : e \in ToDelete(ListedItems)}
    /\ \A e \in ListedItems : (e \in events) # (e \in ToDelete(ListedItems))
    /\ ReportedCount(response.value.message) = Cardinality(CallsOf("delete"))
    /\ frame.deletedCount = Cardinality(CallsOf("delete"))

C28_Witness ==
  /\ Succeeded
  /\ details = [targetDate |-> "2025-10-23", startTime |-> "09:00:00", endTime |-> "10:00:00"]
  /\ Len(frame.items) = 3
  /\ DeleteRequested = {"e1", "e2"}
  /\ {e.id : e \in events} = {"e3"}
  /\ response.value.message = "Deleted 2 meetings between 09:00:00 and 10:00:00 on Thu Oct 23 2025."

\* deleteCalendarEvents has returned its failure result
DeleteHasFailed ==
  /\ Clarified
  /\ SubSeq(response.value.clarificationNeeded.message, 1, 23) = "Failed to delete events"

\* C29: when deleteCalendarEvents returns the failure result no event has
\* been deleted: every event whose deletion was requested is still stored.
C29_FailureLeavesCalendar ==
  DeleteHasFailed => \A id \in DeleteRequested : \E e \in events : e.id = id

(***************************************************************************)
(* modifyCalendarEvent(eventId, details) called on its own.  details holds *)
(* the second argument, frame the event read and the event to write,       *)
(* response what the call returned.                                        *)
(***************************************************************************)
\* an afternoon event of 2025-10-24 in India (16:00 to 17:00 IST) and one
\* that starts after midnight there (01:00 to 02:30 IST of 2025-10-25)
ModifyPool ==
  { StoredEvent("e1", "Product call", "2025-10-24T10:30:00Z", "2025-10-24T11:30:00Z"),
    StoredEvent("e2", "Night deploy", "2025-10-24T19:30:00Z", "2025-10-24T21:00:00Z") }

\* modifyDetails: every field optional; "9 PM" is a time left unconverted
ModifyInputs ==
  [date : {Null, "2025-10-25"}, startTime : {Null, "17:00:00", "9 PM"},
   endTime : {Null, "15:00:00", "18:00:00", "9 PM"}, description : {Null, "agenda"}]

\* toLocaleTimeString('en-US', {timeZone, hour: 'numeric', minute: '2-digit'})
\* of a valid instant, timeZone being Asia/Kolkata
toLocaleTimeString(t) ==
  LET sec == (t + IST * 60) % 86400
      h   == sec \div 3600
  IN  ToString(IF h % 12 = 0 THEN 12 ELSE h % 12) \o ":" \o Pad2((sec % 3600) \div 60)
        \o (IF h < 12 THEN " AM" ELSE " PM")

\* a || b on strings
Either(a, b) == IF Truthy(a) THEN a ELSE b

ModifyFailed(message) ==
  [clarificationNeeded |->
     Clarification("Failed to modify event: " \o message
                     \o ". Please ensure the event exists and provide a valid time range (e.g., 'modify product meeting to start at 9:00 PM and end at 10:00 PM').")]

\* startDateTime: the date and time of details, each defaulting to the UTC
\* date and time of the event's start, or the event's own dateTime
NewStart(modifyDetails, original, originalStart) ==
  IF Truthy(modifyDetails.date) \/ Truthy(modifyDetails.startTime)
  THEN Either(modifyDetails.date, UTCDateOf(originalStart)) \o "T"
         \o Either(modifyDetails.startTime, UTCTimeOf(originalStart))
  ELSE original.start.dateTime

\* updatedEvent.start
StartStamp(modifyDetails, original, startDateTime) ==
  IF Truthy(modifyDetails.date) \/ Truthy(modifyDetails.startTime)
  THEN [dateTime |-> startDateTime, timeZone |-> "Asia/Kolkata"]
  ELSE original.start

\* endDateTime when details carry no endTime: the start, read in the
\* server's zone, plus originalDuration, written by toISOString
EndAfterDuration(newStart, originalDuration) ==
  IF newStart = NaN THEN Thrown("Invalid time value")
  ELSE Returned(toISOString(newStart + originalDuration))

\* endDateTime, or the RangeError of toISOString
NewEnd(modifyDetails, originalEnd, startDateTime, originalDuration, zoneMinutes) ==
  IF Truthy(modifyDetails.endTime)
  THEN Returned(Either(modifyDetails.date, UTCDateOf(originalEnd)) \o "T" \o modifyDetails.endTime)
  ELSE EndAfterDuration(DateParse(startDateTime, zoneMinutes), originalDuration)

\* the validation of the time range: the clarificationNeeded result, or
\* undefined to go on to events.update
RangeProblem(modifyDetails, startDateTime, endDateTime, start, end, shownStart) ==
  IF start = NaN \/ end = NaN
  THEN [clarificationNeeded |->
          Clarification("Invalid date or time format. Start: " \o startDateTime \o ", End: "
                          \o endDateTime \o ". Please provide valid times (e.g., '9:00 PM').")]
  ELSE IF start >= end
  THEN [clarificationNeeded |->
          Clarification("The time range from "
                          \o Either(modifyDetails.startTime, toLocaleTimeString(shownStart))
                          \o " to " \o Either(modifyDetails.endTime, toLocaleTimeString(end))
                          \o " is invalid. Please provide an end time after the start time (e.g., 'modify product meeting to start at 9:00 PM and end at 10:00 PM')."
                       )]
  ELSE undefined

\* updatedEvent as it is handed to events.update
Updated(modifyDetails, original, start, endDateTime) ==
  [original EXCEPT !.start = start,
                   !.end = [dateTime |-> endDateTime, timeZone |-> "Asia/Kolkata"],
                   !.description = Either(modifyDetails.description, original.description)]

ModifyInit ==
  /\ commandText \in {e.id : e \in ModifyPool} \cup {"e9"}
  /\ now \in {FirstNow}
  /\ pc = "modify"
  /\ remoteLog = <<>>
  /\ localLog = <<>>
  /\ remoteOutcome = "none"
  /\ localOutcome = NoOutcome
  /\ outcome = NoOutcome
  /\ calendarTokens \in {Null, Tokens}
  /\ events = ModifyPool
  /\ calls = <<>>
  /\ details \in ModifyInputs
  /\ frame = Null
  /\ response = NoOutcome
  /\ zone \in Zones

\* modifyCalendarEvent returns result
ModifyReturns(result) ==
  /\ response' = Returned(result)
  /\ pc' = "modified"

\* modifyCalendarEvent up to the await of events.get; commandText holds eventId
ModifyCalled ==
  /\ pc = "modify"
  /\ IF calendarTokens = Null
     THEN ModifyReturns(ModifyFailed("User not authenticated. Calendar tokens are missing."))
            /\ UNCHANGED calls
     ELSE /\ calls' = Append(calls, [api |-> "get", eventId |-> commandText])
          /\ pc' = "getting"
          /\ UNCHANGED response
  /\ UNCHANGED <<commandText, now, remoteLog, localLog, remoteOutcome, localOutcome, outcome>>
  /\ UNCHANGED <<calendarTokens, events, details, frame, zone>>

\* events.get or events.update rejects: the catch block returns the failure result
ModifyFails ==
  /\ pc \in {"getting", "updating"}
  /\ \E failure \in ApiFailures \cup {"Not Found"} : ModifyReturns(ModifyFailed(failure))
  /\ UNCHANGED <<commandText, now, remoteLog, localLog, remoteOutcome, localOutcome, outcome>>
  /\ UNCHANGED <<calendarTokens, events, calls, details, frame, zone>>

\* from the validation of the time range to the await of events.update
ModifyChecked(original, updatedEvent, problem) ==
  IF problem # undefined
  THEN /\ ModifyReturns(problem)
       /\ frame' = [event |-> original, updatedEvent |-> updatedEvent]
       /\ UNCHANGED calls
  ELSE /\ calls' = Append(calls, [api |-> "update", eventId |-> commandText,
                                  resource |-> updatedEvent])
       /\ frame' = [event |-> original, updatedEvent |-> updatedEvent]
       /\ pc' = "updating"
       /\ UNCHANGED response

\* from the computation of the end to the validation
ModifyRanged(original, startDateTime, endDateTime, shownStart) ==
  IF endDateTime.kind = "throw"
  THEN /\ ModifyReturns(ModifyFailed(endDateTime.error))
       /\ UNCHANGED <<calls, frame>>
  ELSE ModifyChecked(original,
                     Updated(details, original, StartStamp(details, original, startDateTime),
                             endDateTime.value),
                     RangeProblem(details, startDateTime, endDateTime.value,
                                  DateParse(startDateTime, zone),
                                  DateParse(endDateTime.value, zone), shownStart))

\* from the event read to the computation of the end
ModifyRead(original, originalStart, originalEnd, startDateTime) ==
  ModifyRanged(original, startDateTime,
               NewEnd(details, originalEnd, startDateTime, originalEnd - originalStart, zone),
               DateParse(StartStamp(details, original, startDateTime).dateTime, zone))

\* events.get resolves with the event: the new start and end are computed
\* and validated, and events.update is requested
GetSucceeds ==
  /\ pc = "getting"
  /\ \E original \in events :
       /\ original.id = commandText
       /\ ModifyRead(original, InstantOf(original.start), InstantOf(original.end),
                     NewStart(details, original, InstantOf(original.start)))
  /\ UNCHANGED <<commandText, now, remoteLog, localLog, remoteOutcome, localOutcome, outcome>>
  /\ UNCHANGED <<calendarTokens, events, details, zone>>

\* events.update resolves: the calendar stores the resource in place of the
\* event and the success result is returned
UpdateSucceeds ==
  /\ pc = "updating"
  /\ events' = {e \in events : e.id # commandText} \cup {frame.updatedEvent}
  /\ ModifyReturns([status |-> "success",
                    message |-> "Event '" \o frame.updatedEvent.summary
                                  \o "' modified successfully to start at "
                                  \o toLocaleTimeString(DateParse(frame.updatedEvent.start.dateTime, zone))
                                  \o "."])
  /\ UNCHANGED <<commandText, now, remoteLog, localLog, remoteOutcome, localOutcome, outcome>>
  /\ UNCHANGED <<calendarTokens, calls, details, frame, zone>>

ModifyNext == ModifyCalled \/ GetSucceeds \/ UpdateSucceeds \/ ModifyFails

ModifySpec == ModifyInit /\ [][ModifyNext]_vars

\* the resources handed to events.update
UpdateResources == {calls[i].resource : i \in CallsOf("update")}

\* C30: every events.update that modifyCalendarEvent issues carries a start
\* and an end that are valid date-times with the start strictly before the
\* end; a clarificationNeeded result leaves the stored events as they were;
\* and when details carry no endTime the end written is the start written
\* plus the duration of the event read.
C30_UpdateOnlyValidRanges ==
  /\ \A r \in UpdateResources :
       /\ InstantOf(r.start) # NaN /\ InstantOf(r.end) # NaN
       /\ InstantOf(r.start) < InstantOf(r.end)
       /\ ~Truthy(details.endTime) =>
            InstantOf(r.end) - InstantOf(r.start)
              = InstantOf(frame.event.end) - InstantOf(frame.event.start)
  /\ (pc = "modified" /\ Has(response.value, "clarificationNeeded")) => events = ModifyPool

====
